---- MODULE Spec2Model ----
(***************************************************************************)
(* Consignment store: item lifecycle, price/split arithmetic, payouts and  *)
(* the SQLite durable store.  Money is in whole cents, split percents in   *)
(* whole percent, dates in whole days.  IDs are their numeric suffixes     *)
(* ("C1001" is 1001, "I000001" is 1, "P000001" is 1).                      *)
(***************************************************************************)
EXTENDS Integers, Sequences, FiniteSets, TLC

VARIABLES
    consignors,        \* ConsignmentStore._consignors: id -> Consignor
    items,             \* ConsignmentStore._items: id -> Item
    payouts,           \* ConsignmentStore._payouts: list of Payout
    consignor_counter, \* next value of ConsignmentStore._consignor_counter
    item_counter,      \* next value of ConsignmentStore._item_counter
    payout_counter,    \* next value of ConsignmentStore._payout_counter
    default_split,     \* ConsignmentStore.default_split
    default_stocking_fee, \* ConsignmentStore.default_stocking_fee
    result,            \* outcome of the last call: raised or returned, and what
    query,             \* inputs and outputs of the last pricing evaluation
    db_config,         \* table store_config: key -> row
    db_accounts,       \* table accounts: account_id -> row
    db_items,          \* table items: item_id -> row
    db_sales,          \* table sales: item_id -> row
    db_payouts,        \* table payouts: payout_id -> row
    restarts,          \* how many times the store was rebuilt from the database
    save_todo,         \* save_store in progress: the saves it has still to make
    row_basis,         \* history: account_id -> the payouts and sold items the
                       \* store held when the accounts row was last written
    sync_log,          \* table sync_log: the list of its entries
    cloud,             \* the remote database: table name -> (key -> row)
    configured,        \* CloudSync.is_configured()
    last_sync,         \* AutoSync._last_sync: None or a time in minutes
    now,               \* the clock, datetime.utcnow(), in minutes
    attempts           \* history: who started each push of AutoSync, and when

storeVars == <<consignors, items, payouts, consignor_counter, item_counter,
               payout_counter, default_split, default_stocking_fee>>
dbVars == <<db_config, db_accounts, db_items, db_sales, db_payouts>>
crashVars == <<save_todo, row_basis>>
autoVars == <<last_sync, now, attempts>>
syncVars == <<sync_log, cloud, configured, autoVars>>
vars == <<storeVars, result, query, dbVars, restarts, crashVars, syncVars>>
(* what a call on the store in memory, and a call on the database, leave alone *)
outsideStore == <<query, dbVars, restarts, crashVars, syncVars>>
outsideDb == <<storeVars, query, restarts, crashVars, syncVars>>

----------------------------------------------------------------------------
(* Bounds of the model *)

MaxConsignors == 2
MaxItems == 2
MaxPayouts == 2
MaxAge == 150
MaxCents == 12

(* Inputs the callers are taken to supply to the store in memory *)
SplitSet == {-50}
FeeSet == {200}
PriceSet == {250, 10000}
EntryDateSet == {0}
(* Entry days and sweep days that put items on both sides of day 120       *)
ExpiryEntrySet == {0, 1}
ExpiryDateSet == {120, 121}
DateSet == {0, 125}

(* Inputs of the single-sale runs: terms inside and outside 0..100 percent, *)
(* fees below and above the prices, every discount tier and its edges      *)
SaleSplitSet == {-50, 0, 33, 50, 60, 100, 150}
SaleFeeSet == {0, 200, 500}
SalePriceSet == {10, 30, 250, 500, 10000}
SaleDateSet == {0, 29, 30, 35, 60, 90, 125}

(* Bounds and inputs of the runs with the database *)
DbMaxConsignors == 1
DbMaxItems == 1
DbMaxPayouts == 1
MaxRestarts == 1
MaxSyncs == 1
MaxReloads == 2
MaxAttempts == 3
MaxMinutes == 7
IntervalMinutes == 3
MaxPushes == 2
DbPriceSet == {10000}
DbDateSet == {125}
OtherPrice == 5000
OtherReturnDay == 7

(* Inputs of the pricing evaluations *)
QueryPriceSet == (1..MaxCents) \cup {30, 250, 9999, 10000}
QueryGapSet == {0, 1, 30, 60, 90}

(* Optional[T]: None is the empty tuple, a value v is <<v>> *)
None == << >>
Some(v) == <<v>>
Optional(S) == {None} \cup {Some(v) : v \in S}

----------------------------------------------------------------------------
(* core.py: ItemStatus *)

ACTIVE == "active"
SOLD == "sold"
RETURNED == "returned"
EXPIRED == "expired"
ItemStatus == {ACTIVE, SOLD, RETURNED, EXPIRED}

(* core.py: Item.DISCOUNT_SCHEDULE, Item.EXPIRY_DAYS *)
DISCOUNT_SCHEDULE == << <<90, 75>>, <<60, 50>>, <<30, 25>>, <<0, 0>> >>
EXPIRY_DAYS == 120

(* core.py: ConsignmentStore.DEFAULT_CONSIGNOR_SPLIT / DEFAULT_STOCKING_FEE *)
DEFAULT_CONSIGNOR_SPLIT == 60
DEFAULT_STOCKING_FEE == 200

FIRST_CONSIGNOR_ID == 1001
FIRST_ITEM_ID == 1
FIRST_PAYOUT_ID == 1

----------------------------------------------------------------------------
(* Money/time rules *)

Min(S) == CHOOSE x \in S : \A y \in S : x <= y

(* Mutant of QuantizeHalfUp: banker's rounding, a tie goes to the even cent *)
QuantizeHalfEven(n, d) ==
    LET a == IF n >= 0 THEN n ELSE -n
        q == a \div d
        r == a % d
        m == IF 2 * r > d \/ (2 * r = d /\ q % 2 = 1) THEN q + 1 ELSE q
    IN  IF n >= 0 THEN m ELSE -m

(* Decimal.quantize(Decimal("0.01"), rounding=ROUND_HALF_UP) of n/d cents, *)
(* d > 0: to the nearest cent, a tie away from zero.                       *)
QuantizeHalfUp(n, d) ==
    IF n >= 0 THEN (2 * n + d) \div (2 * d)
              ELSE -((2 * (-n) + d) \div (2 * d))

days_since_entry(entry_date, as_of) == as_of - entry_date

(* Mutant of discount_percent: a tier starts the day after its threshold   *)
discount_percent_late(days) ==
    LET hits == {k \in 1..Len(DISCOUNT_SCHEDULE) : days > DISCOUNT_SCHEDULE[k][1]}
    IN  IF hits = {} THEN 0 ELSE DISCOUNT_SCHEDULE[Min(hits)][2]

discount_percent(days) ==
    LET hits == {k \in 1..Len(DISCOUNT_SCHEDULE) : days >= DISCOUNT_SCHEDULE[k][1]}
    IN  IF hits = {} THEN 0 ELSE DISCOUNT_SCHEDULE[Min(hits)][2]

(* Mutant of current_price: the discount is added instead of taken off    *)
current_price_markup(original_price, days) ==
    QuantizeHalfUp(original_price * (100 + discount_percent(days)), 100)

current_price(original_price, days) ==
    QuantizeHalfUp(original_price * (100 - discount_percent(days)), 100)

(* Mutant of is_expired: an item expires only after day 120                *)
is_expired_after_boundary(days) == days > EXPIRY_DAYS

is_expired(days) == days >= EXPIRY_DAYS

(* Mutant of split_shares: a negative share is not clamped                 *)
split_shares_unclamped(sale_price, split_percent, stocking_fee) ==
    LET consignor_share == QuantizeHalfUp((sale_price - stocking_fee) * split_percent, 100)
    IN  [consignor_share |-> consignor_share,
         store_share |-> sale_price - consignor_share]

(* Mutant of split_shares: the split is taken before the fee is deducted   *)
split_shares_gross(sale_price, split_percent, stocking_fee) ==
    LET consignor_share == QuantizeHalfUp(sale_price * split_percent, 100) - stocking_fee
    IN  IF consignor_share < 0
        THEN [consignor_share |-> 0, store_share |-> sale_price]
        ELSE [consignor_share |-> consignor_share,
              store_share |-> sale_price - consignor_share]

(* sell_item, the split: consignor share and store share of a sale *)
split_shares(sale_price, split_percent, stocking_fee) ==
    LET net_after_fee == sale_price - stocking_fee
        consignor_share == QuantizeHalfUp(net_after_fee * split_percent, 100)
        store_share == sale_price - consignor_share
    IN  IF consignor_share < 0
        THEN [consignor_share |-> 0, store_share |-> sale_price]
        ELSE [consignor_share |-> consignor_share, store_share |-> store_share]

(* sell_item, the SaleRecord it builds *)
make_sale_record(item_id, item, consignor, sale_date) ==
    LET days == days_since_entry(item.entry_date, sale_date)
        sale_price == current_price(item.original_price, days)
        sh == split_shares(sale_price, consignor.split_percent, consignor.stocking_fee)
    IN  [item_id |-> item_id,
         sale_date |-> sale_date,
         original_price |-> item.original_price,
         sale_price |-> sale_price,
         discount_percent |-> discount_percent(days),
         stocking_fee |-> consignor.stocking_fee,
         consignor_share |-> sh.consignor_share,
         store_share |-> sh.store_share]

----------------------------------------------------------------------------
(* ConsignmentStore *)

Ok(op, value) == [status |-> "ok", value |-> Some(value)]
Raised(op) == [status |-> "ValueError", value |-> None]
ReturnedNone(op) == [status |-> "ok", value |-> None]
(* The list process_expirations returns, as the set of the items' ids      *)
Expirations(expired) == [status |-> "expirations", expired |-> expired]

Extend(f, k, v) == [x \in DOMAIN f \cup {k} |-> IF x = k THEN v ELSE f[x]]

(* ConsignmentStore.__init__: "x or DEFAULT" takes the default for None and *)
(* for a zero Decimal, which is falsy                                      *)
ConsignmentStore_init(split, fee) ==
    /\ default_split = IF split # None /\ split[1] # 0
                       THEN split[1] ELSE DEFAULT_CONSIGNOR_SPLIT
    /\ default_stocking_fee = IF fee # None /\ fee[1] # 0
                              THEN fee[1] ELSE DEFAULT_STOCKING_FEE
    /\ consignors = << >>
    /\ items = << >>
    /\ payouts = << >>
    /\ consignor_counter = FIRST_CONSIGNOR_ID
    /\ item_counter = FIRST_ITEM_ID
    /\ payout_counter = FIRST_PAYOUT_ID
    /\ result = ReturnedNone("init")

StoreInit == ConsignmentStore_init(None, None)

(* split_percent / stocking_fee = None: the store's default terms *)
add_consignor(split_percent, stocking_fee) ==
    LET consignor_id == consignor_counter
        consignor == [split_percent |-> IF split_percent # None
                                        THEN split_percent[1] ELSE default_split,
                      stocking_fee |-> IF stocking_fee # None
                                       THEN stocking_fee[1] ELSE default_stocking_fee,
                      balance |-> 0]
    IN  /\ consignor_counter' = consignor_counter + 1
        /\ consignors' = Extend(consignors, consignor_id, consignor)
        /\ result' = Ok("add_consignor", consignor_id)
        /\ UNCHANGED <<items, payouts, item_counter, payout_counter, default_split,
                        default_stocking_fee>>

(* Mutant of update_consignor_terms: the shares of the consignor's        *)
(* existing sale records are rewritten                                     *)
update_consignor_terms_retroactive(consignor_id, split_percent, stocking_fee) ==
    IF consignor_id \notin DOMAIN consignors
    THEN /\ result' = Raised("update_consignor_terms")
         /\ UNCHANGED <<consignors, items, payouts, consignor_counter,
                        item_counter, payout_counter, default_split,
                        default_stocking_fee>>
    ELSE LET c == consignors[consignor_id]
             c1 == IF split_percent # None
                   THEN [c EXCEPT !.split_percent = split_percent[1]] ELSE c
             c2 == IF stocking_fee # None
                   THEN [c1 EXCEPT !.stocking_fee = stocking_fee[1]] ELSE c1
         IN  /\ consignors' = [consignors EXCEPT ![consignor_id] = c2]
             /\ items' = [i \in DOMAIN items |->
                    IF items[i].consignor_id = consignor_id /\ items[i].sale_record # None
                    THEN [items[i] EXCEPT !.sale_record =
                             Some([items[i].sale_record[1] EXCEPT
                                      !.store_share = items[i].sale_record[1].sale_price,
                                      !.consignor_share = 0])]
                    ELSE items[i]]
             /\ result' = Ok("update_consignor_terms", consignor_id)
             /\ UNCHANGED <<payouts, consignor_counter, item_counter,
                            payout_counter, default_split, default_stocking_fee>>

update_consignor_terms(consignor_id, split_percent, stocking_fee) ==
    IF consignor_id \notin DOMAIN consignors
    THEN /\ result' = Raised("update_consignor_terms")
         /\ UNCHANGED <<consignors, items, payouts, consignor_counter,
                        item_counter, payout_counter, default_split,
                        default_stocking_fee>>
    ELSE LET c == consignors[consignor_id]
             c1 == IF split_percent # None
                   THEN [c EXCEPT !.split_percent = split_percent[1]] ELSE c
             c2 == IF stocking_fee # None
                   THEN [c1 EXCEPT !.stocking_fee = stocking_fee[1]] ELSE c1
         IN  /\ consignors' = [consignors EXCEPT ![consignor_id] = c2]
             /\ result' = Ok("update_consignor_terms", consignor_id)
             /\ UNCHANGED <<items, payouts, consignor_counter, item_counter,
                            payout_counter, default_split, default_stocking_fee>>

add_item(consignor_id, price, entry_date) ==
    IF consignor_id \notin DOMAIN consignors
    THEN /\ result' = Raised("add_item")
         /\ UNCHANGED <<consignors, items, payouts, consignor_counter,
                        item_counter, payout_counter, default_split,
                        default_stocking_fee>>
    ELSE LET item_id == item_counter
             item == [consignor_id |-> consignor_id,
                      original_price |-> price,
                      entry_date |-> entry_date,
                      status |-> ACTIVE,
                      sale_record |-> None,
                      status_date |-> entry_date]
         IN  /\ item_counter' = item_counter + 1
             /\ items' = Extend(items, item_id, item)
             /\ result' = Ok("add_item", item_id)
             /\ UNCHANGED <<consignors, payouts, consignor_counter, payout_counter,
                            default_split, default_stocking_fee>>

(* Mutant of sell_item: the status check is missing                        *)
sell_item_any_status(item_id, sale_date) ==
    IF item_id \notin DOMAIN items
    THEN /\ result' = Raised("sell_item")
         /\ UNCHANGED storeVars
    ELSE LET item == items[item_id]
             consignor == consignors[item.consignor_id]
             sale_record == make_sale_record(item_id, item, consignor, sale_date)
         IN  /\ items' = [items EXCEPT ![item_id] =
                            [item EXCEPT !.status = SOLD,
                                         !.status_date = sale_date,
                                         !.sale_record = Some(sale_record)]]
             /\ consignors' = [consignors EXCEPT ![item.consignor_id].balance =
                                  consignor.balance + sale_record.consignor_share]
             /\ result' = Ok("sell_item", item_id)
             /\ UNCHANGED <<payouts, consignor_counter, item_counter, payout_counter,
                            default_split, default_stocking_fee>>

(* Mutant of sell_item: the balance is credited with the whole sale price  *)
sell_item_credits_price(item_id, sale_date) ==
    IF item_id \notin DOMAIN items \/ items[item_id].status # ACTIVE
    THEN /\ result' = Raised("sell_item")
         /\ UNCHANGED storeVars
    ELSE LET item == items[item_id]
             consignor == consignors[item.consignor_id]
             sale_record == make_sale_record(item_id, item, consignor, sale_date)
         IN  /\ items' = [items EXCEPT ![item_id] =
                            [item EXCEPT !.status = SOLD,
                                         !.status_date = sale_date,
                                         !.sale_record = Some(sale_record)]]
             /\ consignors' = [consignors EXCEPT ![item.consignor_id].balance =
                                  consignor.balance + sale_record.sale_price]
             /\ result' = Ok("sell_item", item_id)
             /\ UNCHANGED <<payouts, consignor_counter, item_counter, payout_counter,
                            default_split, default_stocking_fee>>

(* Mutant of sell_item: an item that has reached the expiry age is refused *)
sell_item_checks_expiry(item_id, sale_date) ==
    IF \/ item_id \notin DOMAIN items
       \/ items[item_id].status # ACTIVE
       \/ is_expired(days_since_entry(items[item_id].entry_date, sale_date))
    THEN /\ result' = Raised("sell_item")
         /\ UNCHANGED storeVars
    ELSE LET item == items[item_id]
             consignor == consignors[item.consignor_id]
             sale_record == make_sale_record(item_id, item, consignor, sale_date)
         IN  /\ items' = [items EXCEPT ![item_id] =
                            [item EXCEPT !.status = SOLD,
                                         !.status_date = sale_date,
                                         !.sale_record = Some(sale_record)]]
             /\ consignors' = [consignors EXCEPT ![item.consignor_id].balance =
                                  consignor.balance + sale_record.consignor_share]
             /\ result' = Ok("sell_item", item_id)
             /\ UNCHANGED <<payouts, consignor_counter, item_counter, payout_counter,
                            default_split, default_stocking_fee>>

sell_item(item_id, sale_date) ==
    IF item_id \notin DOMAIN items \/ items[item_id].status # ACTIVE
    THEN /\ result' = Raised("sell_item")
         /\ UNCHANGED <<consignors, items, payouts, consignor_counter,
                        item_counter, payout_counter, default_split,
                        default_stocking_fee>>
    ELSE LET item == items[item_id]
             consignor == consignors[item.consignor_id]
             sale_record == make_sale_record(item_id, item, consignor, sale_date)
         IN  /\ items' = [items EXCEPT ![item_id] =
                            [item EXCEPT !.status = SOLD,
                                         !.status_date = sale_date,
                                         !.sale_record = Some(sale_record)]]
             /\ consignors' = [consignors EXCEPT ![item.consignor_id].balance =
                                  consignor.balance + sale_record.consignor_share]
             /\ result' = Ok("sell_item", item_id)
             /\ UNCHANGED <<payouts, consignor_counter, item_counter, payout_counter, default_split,
                        default_stocking_fee>>

return_item_to_consignor(item_id, return_date) ==
    IF item_id \notin DOMAIN items \/ items[item_id].status # ACTIVE
    THEN /\ result' = Raised("return_item_to_consignor")
         /\ UNCHANGED <<consignors, items, payouts, consignor_counter,
                        item_counter, payout_counter, default_split,
                        default_stocking_fee>>
    ELSE /\ items' = [items EXCEPT ![item_id].status = RETURNED,
                                   ![item_id].status_date = return_date]
         /\ result' = Ok("return_item_to_consignor", item_id)
         /\ UNCHANGED <<consignors, payouts, consignor_counter, item_counter,
                        payout_counter, default_split, default_stocking_fee>>

(* Mutant of expire_item: the date is stamped before the status is checked *)
expire_item_stamps_first(item_id, expire_date) ==
    IF item_id \notin DOMAIN items
    THEN /\ result' = Raised("expire_item")
         /\ UNCHANGED storeVars
    ELSE IF items[item_id].status # ACTIVE
    THEN /\ items' = [items EXCEPT ![item_id].status_date = expire_date]
         /\ result' = Raised("expire_item")
         /\ UNCHANGED <<consignors, payouts, consignor_counter, item_counter,
                        payout_counter, default_split, default_stocking_fee>>
    ELSE /\ items' = [items EXCEPT ![item_id].status = EXPIRED,
                                   ![item_id].status_date = expire_date]
         /\ result' = Ok("expire_item", item_id)
         /\ UNCHANGED <<consignors, payouts, consignor_counter, item_counter,
                        payout_counter, default_split, default_stocking_fee>>

expire_item(item_id, expire_date) ==
    IF item_id \notin DOMAIN items \/ items[item_id].status # ACTIVE
    THEN /\ result' = Raised("expire_item")
         /\ UNCHANGED <<consignors, items, payouts, consignor_counter,
                        item_counter, payout_counter, default_split,
                        default_stocking_fee>>
    ELSE /\ items' = [items EXCEPT ![item_id].status = EXPIRED,
                                   ![item_id].status_date = expire_date]
         /\ result' = Ok("expire_item", item_id)
         /\ UNCHANGED <<consignors, payouts, consignor_counter, item_counter,
                        payout_counter, default_split, default_stocking_fee>>

process_expirations(as_of) ==
    LET expired == {i \in DOMAIN items :
                        /\ items[i].status = ACTIVE
                        /\ is_expired(days_since_entry(items[i].entry_date, as_of))}
    IN  /\ items' = [i \in DOMAIN items |->
                        IF i \in expired
                        THEN [items[i] EXCEPT !.status = EXPIRED, !.status_date = as_of]
                        ELSE items[i]]
        /\ result' = Expirations(expired)
        /\ UNCHANGED <<consignors, payouts, consignor_counter, item_counter,
                       payout_counter, default_split, default_stocking_fee>>

(* Mutant of process_payout: the payout is recorded, the balance is kept   *)
process_payout_keeps_balance(consignor_id) ==
    IF consignor_id \notin DOMAIN consignors
    THEN /\ result' = Raised("process_payout")
         /\ UNCHANGED storeVars
    ELSE IF consignors[consignor_id].balance <= 0
    THEN /\ result' = ReturnedNone("process_payout")
         /\ UNCHANGED storeVars
    ELSE LET payout == [payout_id |-> payout_counter,
                        consignor_id |-> consignor_id,
                        amount |-> consignors[consignor_id].balance]
         IN  /\ payout_counter' = payout_counter + 1
             /\ payouts' = Append(payouts, payout)
             /\ result' = Ok("process_payout", payout.payout_id)
             /\ UNCHANGED <<consignors, items, consignor_counter, item_counter,
                            default_split, default_stocking_fee>>

process_payout(consignor_id) ==
    IF consignor_id \notin DOMAIN consignors
    THEN /\ result' = Raised("process_payout")
         /\ UNCHANGED <<consignors, items, payouts, consignor_counter,
                        item_counter, payout_counter, default_split,
                        default_stocking_fee>>
    ELSE IF consignors[consignor_id].balance <= 0
    THEN /\ result' = ReturnedNone("process_payout")
         /\ UNCHANGED <<consignors, items, payouts, consignor_counter,
                        item_counter, payout_counter, default_split,
                        default_stocking_fee>>
    ELSE LET payout == [payout_id |-> payout_counter,
                        consignor_id |-> consignor_id,
                        amount |-> consignors[consignor_id].balance]
         IN  /\ payout_counter' = payout_counter + 1
             /\ consignors' = [consignors EXCEPT ![consignor_id].balance = 0]
             /\ payouts' = Append(payouts, payout)
             /\ result' = Ok("process_payout", payout.payout_id)
             /\ UNCHANGED <<items, consignor_counter, item_counter, default_split,
                            default_stocking_fee>>

----------------------------------------------------------------------------
(* storage.py: ConsignmentStorage.  A table is a function from the primary *)
(* key to the row; every method runs in one transaction of _get_connection, *)
(* committed on return and rolled back when a statement raises.            *)

Max(S) == CHOOSE x \in S : \A y \in S : x >= y

(* safe_decimal: a stored amount above 10 billion dollars (10^12 cents,    *)
(* compared in millions of cents) loads as the default 0.00                *)
safe_decimal(value) ==
    LET magnitude == IF value >= 0 THEN value ELSE -value
    IN  IF magnitude \div 1000000 > 1000000
           \/ (magnitude \div 1000000 = 1000000 /\ magnitude % 1000000 > 0)
        THEN 0 ELSE value

(* INSERT OR REPLACE INTO table ... *)
Upsert(table, key, row) == Extend(table, key, row)

IntegrityError == [status |-> "IntegrityError", value |-> None]

account_row(consignor) ==
    [split_percent |-> consignor.split_percent,
     stocking_fee |-> consignor.stocking_fee,
     balance |-> consignor.balance,
     sync_status |-> "pending"]

item_row(item) ==
    [account_id |-> item.consignor_id,
     original_price |-> item.original_price,
     entry_date |-> item.entry_date,
     status |-> item.status,
     status_date |-> item.status_date,
     sync_status |-> "pending"]

sale_row(sale) ==
    [sale_date |-> sale.sale_date,
     original_price |-> sale.original_price,
     sale_price |-> sale.sale_price,
     discount_percent |-> sale.discount_percent,
     stocking_fee |-> sale.stocking_fee,
     account_share |-> sale.consignor_share,
     store_share |-> sale.store_share,
     sync_status |-> "pending"]

payout_row(payout) ==
    [account_id |-> payout.consignor_id, amount |-> payout.amount,
     sync_status |-> "pending"]

config_row(value) == [value |-> value, sync_status |-> "pending"]

(* save_store_config: the defaults, and a counter per kind that has an id  *)
config_rows(config) ==
    LET c1 == Upsert(Upsert(config, "default_split", config_row(default_split)),
                     "default_stocking_fee", config_row(default_stocking_fee))
        c2 == IF DOMAIN consignors # {}
              THEN Upsert(c1, "account_counter",
                          config_row(Max(DOMAIN consignors) + 1)) ELSE c1
        c3 == IF DOMAIN items # {}
              THEN Upsert(c2, "item_counter", config_row(Max(DOMAIN items) + 1)) ELSE c2
        payout_ids == {payouts[k].payout_id : k \in DOMAIN payouts}
    IN  IF payout_ids # {}
        THEN Upsert(c3, "payout_counter", config_row(Max(payout_ids) + 1)) ELSE c3

save_store_config ==
    /\ db_config' = config_rows(db_config)
    /\ result' = ReturnedNone("save_store_config")
    /\ UNCHANGED <<db_accounts, db_items, db_sales, db_payouts>>

(* Mutant of save_account: a row that exists keeps its sync_status          *)
save_account_keeps_status(account_id) ==
    /\ account_id \in DOMAIN consignors
    /\ db_accounts' = Upsert(db_accounts, account_id,
                             [account_row(consignors[account_id]) EXCEPT
                                 !.sync_status = IF account_id \in DOMAIN db_accounts
                                                 THEN db_accounts[account_id].sync_status
                                                 ELSE @])
    /\ result' = ReturnedNone("save_account")
    /\ UNCHANGED <<db_config, db_items, db_sales, db_payouts>>

save_account(account_id) ==
    /\ account_id \in DOMAIN consignors
    /\ db_accounts' = Upsert(db_accounts, account_id, account_row(consignors[account_id]))
    /\ result' = ReturnedNone("save_account")
    /\ UNCHANGED <<db_config, db_items, db_sales, db_payouts>>

(* the items row and, when the item carries a sale record, the sales row   *)
save_item(item_id) ==
    /\ item_id \in DOMAIN items
    /\ IF items[item_id].consignor_id \notin DOMAIN db_accounts
       THEN /\ result' = IntegrityError
            /\ UNCHANGED dbVars
       ELSE /\ db_items' = Upsert(db_items, item_id, item_row(items[item_id]))
            /\ db_sales' = IF items[item_id].sale_record # None
                           THEN Upsert(db_sales, item_id,
                                       sale_row(items[item_id].sale_record[1]))
                           ELSE db_sales
            /\ result' = ReturnedNone("save_item")
            /\ UNCHANGED <<db_config, db_accounts, db_payouts>>

Crashed(item_id) == [status |-> "crashed", value |-> Some(item_id)]

(* Mutant of save_item_interrupted: every statement is committed as it is  *)
(* executed (a connection in autocommit mode)                              *)
save_item_autocommit(item_id, done) ==
    /\ item_id \in DOMAIN items
    /\ items[item_id].consignor_id \in DOMAIN db_accounts
    /\ db_items' = IF done >= 1
                   THEN Upsert(db_items, item_id, item_row(items[item_id]))
                   ELSE db_items
    /\ db_sales' = IF done >= 2 /\ items[item_id].sale_record # None
                   THEN Upsert(db_sales, item_id,
                               sale_row(items[item_id].sale_record[1]))
                   ELSE db_sales
    /\ result' = Crashed(item_id)
    /\ UNCHANGED <<db_config, db_accounts, db_payouts>>

(* save_item when the process dies after `done` of its statements: the     *)
(* connection of _get_connection never reaches conn.commit(), and SQLite   *)
(* rolls the open transaction back                                         *)
save_item_interrupted(item_id, done) ==
    /\ item_id \in DOMAIN items
    /\ items[item_id].consignor_id \in DOMAIN db_accounts
    /\ result' = Crashed(item_id)
    /\ UNCHANGED dbVars

(* save_sale_record on the sale record an item carries                     *)
save_sale_record(item_id) ==
    /\ item_id \in DOMAIN items
    /\ items[item_id].sale_record # None
    /\ IF item_id \notin DOMAIN db_items
       THEN /\ result' = IntegrityError
            /\ UNCHANGED dbVars
       ELSE /\ db_sales' = Upsert(db_sales, item_id,
                                  sale_row(items[item_id].sale_record[1]))
            /\ result' = ReturnedNone("save_sale_record")
            /\ UNCHANGED <<db_config, db_accounts, db_items, db_payouts>>

save_payout(k) ==
    /\ k \in DOMAIN payouts
    /\ IF payouts[k].consignor_id \notin DOMAIN db_accounts
       THEN /\ result' = IntegrityError
            /\ UNCHANGED dbVars
       ELSE /\ db_payouts' = Upsert(db_payouts, payouts[k].payout_id,
                                    payout_row(payouts[k]))
            /\ result' = ReturnedNone("save_payout")
            /\ UNCHANGED <<db_config, db_accounts, db_items, db_sales>>

(* save_store: the config, then every account, item and payout in turn;    *)
(* the accounts are written first, so no foreign key fails                 *)
save_store ==
    LET sold == {i \in DOMAIN items : items[i].sale_record # None}
        payout_ids == {payouts[k].payout_id : k \in DOMAIN payouts}
        last(id) == Max({k \in DOMAIN payouts : payouts[k].payout_id = id})
    IN  /\ db_config' = config_rows(db_config)
        /\ db_accounts' = [a \in DOMAIN db_accounts \cup DOMAIN consignors |->
                              IF a \in DOMAIN consignors
                              THEN account_row(consignors[a]) ELSE db_accounts[a]]
        /\ db_items' = [i \in DOMAIN db_items \cup DOMAIN items |->
                           IF i \in DOMAIN items THEN item_row(items[i]) ELSE db_items[i]]
        /\ db_sales' = [i \in DOMAIN db_sales \cup sold |->
                           IF i \in sold THEN sale_row(items[i].sale_record[1])
                                         ELSE db_sales[i]]
        /\ db_payouts' = [q \in DOMAIN db_payouts \cup payout_ids |->
                             IF q \in payout_ids THEN payout_row(payouts[last(q)])
                                                 ELSE db_payouts[q]]
        /\ result' = ReturnedNone("save_store")

(* save_store as the program runs it: save_store_config, then one         *)
(* transaction per account, item and payout, in the order of the store's   *)
(* dict and list                                                           *)
RECURSIVE in_order(_)
in_order(ids) ==
    IF ids = {} THEN << >>
    ELSE LET first == CHOOSE x \in ids : \A y \in ids : x <= y
         IN  <<first>> \o in_order(ids \ {first})

save_store_steps ==
    [k \in 1..Cardinality(DOMAIN consignors) |->
        [kind |-> "account", key |-> in_order(DOMAIN consignors)[k]]]
    \o [k \in 1..Cardinality(DOMAIN items) |->
        [kind |-> "item", key |-> in_order(DOMAIN items)[k]]]
    \o [k \in 1..Len(payouts) |-> [kind |-> "payout", key |-> k]]

save_store_begin ==
    /\ save_todo = << >>
    /\ save_store_config
    /\ save_todo' = save_store_steps

save_store_step ==
    /\ save_todo # << >>
    /\ LET step == Head(save_todo)
       IN  /\ \/ step.kind = "account" /\ save_account(step.key)
              \/ step.kind = "item" /\ save_item(step.key)
              \/ step.kind = "payout" /\ save_payout(step.key)
           /\ save_todo' = IF result' = IntegrityError THEN << >> ELSE Tail(save_todo)

_row_to_account(row) ==
    [split_percent |-> safe_decimal(row.split_percent),
     stocking_fee |-> safe_decimal(row.stocking_fee),
     balance |-> safe_decimal(row.balance)]

(* _row_to_item: the item of an items row, with the sale record of the     *)
(* sales row of the same item_id when there is one                         *)
_row_to_item(item_id) ==
    LET row == db_items[item_id]
        sale_record ==
            IF item_id \in DOMAIN db_sales
            THEN LET sale_row_ == db_sales[item_id]
                 IN  Some([item_id |-> item_id,
                           sale_date |-> sale_row_.sale_date,
                           original_price |-> safe_decimal(sale_row_.original_price),
                           sale_price |-> safe_decimal(sale_row_.sale_price),
                           discount_percent |-> sale_row_.discount_percent,
                           stocking_fee |-> safe_decimal(sale_row_.stocking_fee),
                           consignor_share |-> safe_decimal(sale_row_.account_share),
                           store_share |-> safe_decimal(sale_row_.store_share)])
            ELSE None
    IN  [consignor_id |-> row.account_id,
         original_price |-> safe_decimal(row.original_price),
         entry_date |-> row.entry_date,
         status |-> row.status,
         sale_record |-> sale_record,
         status_date |-> row.status_date]

_row_to_payout(payout_id) ==
    [payout_id |-> payout_id,
     consignor_id |-> db_payouts[payout_id].account_id,
     amount |-> safe_decimal(db_payouts[payout_id].amount)]

(* load_item: None for an unknown id *)
load_item(item_id) ==
    IF item_id \in DOMAIN db_items THEN Some(_row_to_item(item_id)) ELSE None

RECURSIVE rows_in_id_order(_)
rows_in_id_order(ids) ==
    IF ids = {} THEN << >>
    ELSE LET first == Min(ids)
         IN  <<_row_to_payout(first)>> \o rows_in_id_order(ids \ {first})

(* "x or DEFAULT" of ConsignmentStore.__init__ on a loaded default         *)
or_default(value, default) == IF value # 0 THEN value ELSE default

config_get(key, default) ==
    IF key \in DOMAIN db_config THEN db_config[key].value ELSE default

(* load_store: a new ConsignmentStore from the saved defaults, the saved   *)
(* counters where the config holds them, and every row                     *)
load_store ==
    /\ default_split' = or_default(config_get("default_split", DEFAULT_CONSIGNOR_SPLIT),
                                   DEFAULT_CONSIGNOR_SPLIT)
    /\ default_stocking_fee' =
           or_default(config_get("default_stocking_fee", DEFAULT_STOCKING_FEE),
                      DEFAULT_STOCKING_FEE)
    /\ consignor_counter' = config_get("account_counter", FIRST_CONSIGNOR_ID)
    /\ item_counter' = config_get("item_counter", FIRST_ITEM_ID)
    /\ payout_counter' = config_get("payout_counter", FIRST_PAYOUT_ID)
    /\ consignors' = [a \in DOMAIN db_accounts |-> _row_to_account(db_accounts[a])]
    /\ items' = [i \in DOMAIN db_items |-> _row_to_item(i)]
    /\ payouts' = rows_in_id_order(DOMAIN db_payouts)
    /\ result' = ReturnedNone("load_store")

----------------------------------------------------------------------------
(* storage.py, sync support, and cloud_sync.py: CloudSync.  The Consignor   *)
(* names of cloud_sync.py (table consignors, consignor_id, consignor_share) *)
(* and the Account names of storage.py (accounts, account_id,              *)
(* account_share) are the two names of one thing.                          *)

LocalTables ==
    [config |-> db_config, accounts |-> db_accounts, items |-> db_items,
     sales |-> db_sales, payouts |-> db_payouts]

Restrict(table, keys) == [k \in keys |-> table[k]]

pending_rows(table) ==
    Restrict(table, {k \in DOMAIN table : table[k].sync_status = "pending"})

(* Mutant of get_pending_changes: the sales table is not queried           *)
get_pending_changes_without_sales(tables) ==
    [config |-> pending_rows(tables.config),
     accounts |-> pending_rows(tables.accounts),
     items |-> pending_rows(tables.items),
     sales |-> << >>,
     payouts |-> pending_rows(tables.payouts)]

(* get_pending_changes, on the five tables *)
get_pending_changes(tables) ==
    [config |-> pending_rows(tables.config),
     accounts |-> pending_rows(tables.accounts),
     items |-> pending_rows(tables.items),
     sales |-> pending_rows(tables.sales),
     payouts |-> pending_rows(tables.payouts)]

with_status(table, status) ==
    [k \in DOMAIN table |-> [table[k] EXCEPT !.sync_status = status]]

(* UPDATE <table> SET sync_status = ... for each of the five tables *)
all_with_status(tables, status) ==
    [config |-> with_status(tables.config, status),
     accounts |-> with_status(tables.accounts, status),
     items |-> with_status(tables.items, status),
     sales |-> with_status(tables.sales, status),
     payouts |-> with_status(tables.payouts, status)]

(* Mutant of mark_all_synced: store_config is missing from the table list  *)
mark_all_synced_without_config(tables) ==
    [all_with_status(tables, "synced") EXCEPT !.config = tables.config]

mark_all_synced(tables) == all_with_status(tables, "synced")

set_local_tables(tables) ==
    /\ db_config' = tables.config
    /\ db_accounts' = tables.accounts
    /\ db_items' = tables.items
    /\ db_sales' = tables.sales
    /\ db_payouts' = tables.payouts

(* log_sync: a new entry of sync_log; its id is its position *)
log_sync(log, sync_type, status) ==
    Append(log, [sync_type |-> sync_type, status |-> status,
                 records_synced |-> 0, error_message |-> None])

(* update_sync_log: records_synced is written only when it is given *)
update_sync_log(log, log_id, status, records_synced, error_message) ==
    [log EXCEPT ![log_id] =
        [@ EXCEPT !.status = status,
                  !.records_synced = IF records_synced # None
                                     THEN records_synced[1] ELSE @,
                  !.error_message = error_message]]

(* a call that returned a SyncResult *)
Synced(sync_result) == [status |-> "sync_result", sync_result |-> sync_result]

SyncResult(direction, status, records_synced, error_message) ==
    [direction |-> direction, status |-> status,
     records_synced |-> records_synced, error_message |-> error_message]

(* _get_instance_id of this installation, and of another one *)
INSTANCE_ID == "this"
OTHER_INSTANCE_ID == "other"

(* the remote row an INSERT makes of a pending local row *)
remote_config(row, instance) == [value |-> row.value, source_instance |-> instance]

remote_consignor(row, instance) ==
    [split_percent |-> row.split_percent, stocking_fee |-> row.stocking_fee,
     balance |-> row.balance, source_instance |-> instance]

remote_item(row, instance) ==
    [consignor_id |-> row.account_id, original_price |-> row.original_price,
     entry_date |-> row.entry_date, status |-> row.status,
     status_date |-> row.status_date, source_instance |-> instance]

remote_sale(row, instance) ==
    [sale_date |-> row.sale_date, original_price |-> row.original_price,
     sale_price |-> row.sale_price, discount_percent |-> row.discount_percent,
     stocking_fee |-> row.stocking_fee, consignor_share |-> row.account_share,
     store_share |-> row.store_share, source_instance |-> instance]

remote_payout(row, instance) ==
    [consignor_id |-> row.account_id, amount |-> row.amount,
     source_instance |-> instance]

(* ON CONFLICT (key) DO UPDATE SET ...: the columns each statement lists   *)
conflict_config(old, new) == new

(* Mutant of conflict_consignor: the pushed balance is added to the        *)
(* remote one                                                              *)
conflict_consignor_adds_balance(old, new) ==
    [new EXCEPT !.balance = old.balance + new.balance]

conflict_consignor(old, new) == new

conflict_item(old, new) ==
    [old EXCEPT !.status = new.status, !.status_date = new.status_date,
                !.source_instance = new.source_instance]

conflict_sale(old, new) ==
    [old EXCEPT !.sale_date = new.sale_date, !.sale_price = new.sale_price,
                !.discount_percent = new.discount_percent,
                !.consignor_share = new.consignor_share,
                !.store_share = new.store_share,
                !.source_instance = new.source_instance]

conflict_payout(old, new) ==
    [old EXCEPT !.amount = new.amount, !.source_instance = new.source_instance]

(* the remote tables after the upserts of one push have been committed     *)
upserted(remote, changes, instance) ==
    LET both(table, rows, image(_), conflict(_, _)) ==
            [k \in DOMAIN table \cup DOMAIN rows |->
                IF k \notin DOMAIN rows THEN table[k]
                ELSE IF k \in DOMAIN table THEN conflict(table[k], image(rows[k]))
                ELSE image(rows[k])]
        config_image(row) == remote_config(row, instance)
        consignor_image(row) == remote_consignor(row, instance)
        item_image(row) == remote_item(row, instance)
        sale_image(row) == remote_sale(row, instance)
        payout_image(row) == remote_payout(row, instance)
    IN  [store_config |-> both(remote.store_config, changes.config,
                               config_image, conflict_config),
         consignors |-> both(remote.consignors, changes.accounts,
                             consignor_image, conflict_consignor),
         items |-> both(remote.items, changes.items, item_image, conflict_item),
         sales |-> both(remote.sales, changes.sales, sale_image, conflict_sale),
         payouts |-> both(remote.payouts, changes.payouts,
                          payout_image, conflict_payout)]

count_rows(changes) ==
    Cardinality(DOMAIN changes.config) + Cardinality(DOMAIN changes.accounts)
        + Cardinality(DOMAIN changes.items) + Cardinality(DOMAIN changes.sales)
        + Cardinality(DOMAIN changes.payouts)

(* an exception of the local database that reaches the caller *)
OperationalError == [status |-> "OperationalError", value |-> None]

(* the body of push_changes on the local tables it finds.  fault is the    *)
(* step that raises: "none", or "journal" (log_sync, before the try),      *)
(* "schema" (_ensure_schema), "connect",                                   *)
(* "pending" (get_pending_changes), "upsert" (a cursor.execute), "commit"  *)
(* (conn.commit(), nothing committed), "mark" (mark_all_synced, after the  *)
(* remote commit).                                                         *)
(* Mutant of local_after_push: mark_all_synced is called before            *)
(* conn.commit()                                                           *)
local_after_push_marked_early(tables, fault) ==
    IF fault \in {"none", "commit"} THEN mark_all_synced(tables) ELSE tables

(* the local tables at the end of push_changes: mark_all_synced is reached *)
(* only when nothing before it has raised                                  *)
local_after_push(tables, fault) ==
    IF fault = "none" THEN mark_all_synced(tables) ELSE tables

(* Mutant of push: the remote connection commits every statement at once  *)
push_autocommit(tables, fault) ==
    LET log_id == Len(sync_log) + 1
        started == log_sync(sync_log, "push", "in_progress")
        changes == get_pending_changes(tables)
        total_synced == count_rows(changes)
    IN  /\ cloud' = IF fault \in {"none", "mark", "upsert", "commit"}
                    THEN upserted(cloud, changes, INSTANCE_ID) ELSE cloud
        /\ set_local_tables(local_after_push(tables, fault))
        /\ IF fault = "journal"
           THEN /\ sync_log' = sync_log
                /\ result' = OperationalError
           ELSE IF fault = "none"
           THEN /\ sync_log' = update_sync_log(started, log_id, "success",
                                               Some(total_synced), None)
                /\ result' = Synced(SyncResult("push",
                                           IF total_synced > 0 THEN "success"
                                                               ELSE "no_changes",
                                           total_synced, None))
           ELSE /\ sync_log' = update_sync_log(started, log_id, "failed",
                                               None, Some(fault))
                /\ result' = Synced(SyncResult("push", "failed", 0, Some(fault)))

push(tables, fault) ==
    LET log_id == Len(sync_log) + 1
        started == log_sync(sync_log, "push", "in_progress")
        changes == get_pending_changes(tables)
        total_synced == count_rows(changes)
    IN  /\ cloud' = IF fault \in {"none", "mark"}
                    THEN upserted(cloud, changes, INSTANCE_ID) ELSE cloud
        /\ set_local_tables(local_after_push(tables, fault))
        /\ IF fault = "journal"
           THEN /\ sync_log' = sync_log
                /\ result' = OperationalError
           ELSE IF fault = "none"
           THEN /\ sync_log' = update_sync_log(started, log_id, "success",
                                               Some(total_synced), None)
                /\ result' = Synced(SyncResult("push",
                                           IF total_synced > 0 THEN "success"
                                                               ELSE "no_changes",
                                           total_synced, None))
           ELSE /\ sync_log' = update_sync_log(started, log_id, "failed",
                                               None, Some(fault))
                /\ result' = Synced(SyncResult("push", "failed", 0, Some(fault)))

(* Mutant of not_configured: the refused call is written to the journal    *)
not_configured_journaled(direction) ==
    /\ result' = Synced(SyncResult(direction, "failed", 0,
                                   Some("Cloud database not configured")))
    /\ sync_log' = update_sync_log(log_sync(sync_log, direction, "in_progress"),
                                   Len(sync_log) + 1, "failed", None,
                                   Some("Cloud database not configured"))
    /\ UNCHANGED <<dbVars, cloud>>

not_configured(direction) ==
    /\ result' = Synced(SyncResult(direction, "failed", 0,
                                          Some("Cloud database not configured")))
    /\ UNCHANGED <<dbVars, sync_log, cloud>>

push_changes(fault) ==
    IF ~configured THEN not_configured("push") ELSE push(LocalTables, fault)

(* Mutant of push_full: the rows are not marked pending first              *)
push_full_without_premark(fault) ==
    IF ~configured THEN not_configured("push")
    ELSE IF fault = "premark"
    THEN /\ result' = OperationalError
         /\ UNCHANGED <<dbVars, sync_log, cloud>>
    ELSE push(LocalTables, fault)

(* push_full: every local row is marked pending in a transaction of its    *)
(* own, then push_changes.  fault "premark": that UPDATE raises and is     *)
(* rolled back                                                             *)
push_full(fault) ==
    IF ~configured THEN not_configured("push")
    ELSE IF fault = "premark"
    THEN /\ result' = OperationalError
         /\ UNCHANGED <<dbVars, sync_log, cloud>>
    ELSE push(all_with_status(LocalTables, "pending"), fault)

(* the local rows bulk_import makes of the fetched remote rows *)
imported(remote) ==
    [config |-> [k \in DOMAIN remote.store_config |->
                    [value |-> remote.store_config[k].value,
                     sync_status |-> "synced"]],
     accounts |-> [k \in DOMAIN remote.consignors |->
                    [split_percent |-> remote.consignors[k].split_percent,
                     stocking_fee |-> remote.consignors[k].stocking_fee,
                     balance |-> remote.consignors[k].balance,
                     sync_status |-> "synced"]],
     items |-> [k \in DOMAIN remote.items |->
                    [account_id |-> remote.items[k].consignor_id,
                     original_price |-> remote.items[k].original_price,
                     entry_date |-> remote.items[k].entry_date,
                     status |-> remote.items[k].status,
                     status_date |-> remote.items[k].status_date,
                     sync_status |-> "synced"]],
     sales |-> [k \in DOMAIN remote.sales |->
                    [sale_date |-> remote.sales[k].sale_date,
                     original_price |-> remote.sales[k].original_price,
                     sale_price |-> remote.sales[k].sale_price,
                     discount_percent |-> remote.sales[k].discount_percent,
                     stocking_fee |-> remote.sales[k].stocking_fee,
                     account_share |-> remote.sales[k].consignor_share,
                     store_share |-> remote.sales[k].store_share,
                     sync_status |-> "synced"]],
     payouts |-> [k \in DOMAIN remote.payouts |->
                    [account_id |-> remote.payouts[k].consignor_id,
                     amount |-> remote.payouts[k].amount,
                     sync_status |-> "synced"]]]

(* the five data tables after clear_all_data *)
cleared ==
    [config |-> << >>, accounts |-> << >>, items |-> << >>, sales |-> << >>,
     payouts |-> << >>]

(* Mutant of clear_all_data: DELETE FROM store_config is missing           *)
clear_all_data_keeps_config(tables) == [cleared EXCEPT !.config = tables.config]

clear_all_data(tables) == cleared

(* bulk_import: INSERT OR REPLACE of every fetched row into the tables     *)
bulk_import(tables, remote) ==
    LET over(table, rows) ==
            [k \in DOMAIN table \cup DOMAIN rows |->
                IF k \in DOMAIN rows THEN rows[k] ELSE table[k]]
        rows == imported(remote)
    IN  [config |-> over(tables.config, rows.config),
         accounts |-> over(tables.accounts, rows.accounts),
         items |-> over(tables.items, rows.items),
         sales |-> over(tables.sales, rows.sales),
         payouts |-> over(tables.payouts, rows.payouts)]

(* the body of pull_full once it is confirmed and configured.  fault:      *)
(* "none", or "journal" (log_sync, before the try), "fetch" (the connection or a SELECT), "clear"               *)
(* (clear_all_data, rolled back), "import" (bulk_import, rolled back after *)
(* clear_all_data has committed).                                          *)
pull(fault) ==
    LET log_id == Len(sync_log) + 1
        started == log_sync(sync_log, "pull", "in_progress")
        total == Cardinality(DOMAIN cloud.store_config)
                   + Cardinality(DOMAIN cloud.consignors)
                   + Cardinality(DOMAIN cloud.items)
                   + Cardinality(DOMAIN cloud.sales)
                   + Cardinality(DOMAIN cloud.payouts)
    IN  /\ cloud' = cloud
        /\ IF fault = "journal"
           THEN /\ result' = OperationalError
                /\ UNCHANGED <<dbVars, sync_log>>
           ELSE IF fault = "none"
           THEN /\ set_local_tables(bulk_import(clear_all_data(LocalTables), cloud))
                /\ sync_log' = update_sync_log(started, log_id, "success",
                                               Some(total), None)
                /\ result' = Synced(SyncResult("pull", "success", total, None))
           ELSE /\ IF fault = "import"
                   THEN set_local_tables(clear_all_data(LocalTables))
                   ELSE UNCHANGED dbVars
                /\ sync_log' = update_sync_log(started, log_id, "failed",
                                               None, Some(fault))
                /\ result' = Synced(SyncResult("pull", "failed", 0, Some(fault)))

NOT_CONFIRMED == "Recovery not confirmed. Pass confirm=True to proceed."

not_confirmed ==
    /\ result' = Synced(SyncResult("pull", "failed", 0, Some(NOT_CONFIRMED)))
    /\ UNCHANGED <<dbVars, sync_log, cloud>>

(* Mutant of pull_full: is_configured() is checked before confirm          *)
pull_full_configured_first(confirm, fault) ==
    IF ~configured THEN not_configured("pull")
    ELSE IF ~confirm THEN not_confirmed
    ELSE pull(fault)

pull_full(confirm, fault) ==
    IF ~confirm THEN not_confirmed
    ELSE IF ~configured THEN not_configured("pull")
    ELSE pull(fault)

(* push_changes as another installation runs it on its own pending rows:   *)
(* here only its remote transaction shows                                  *)
other_instance_push(changes) ==
    /\ cloud' = upserted(cloud, changes, OTHER_INSTANCE_ID)
    /\ UNCHANGED <<dbVars, sync_log, result>>

----------------------------------------------------------------------------
(* cloud_sync.py: AutoSync, with interval_minutes = IntervalMinutes.  A    *)
(* call takes `duration` minutes, during which the push runs.              *)

cooling_down == last_sync # None /\ now - last_sync[1] < IntervalMinutes

(* sync_if_due returned None: nothing was attempted *)
NotDue == [status |-> "not_due", value |-> None]

restarts_cooldown(sync_result) == sync_result.status \in {"success", "no_changes"}

sync_if_due(fault, duration) ==
    IF cooling_down
    THEN /\ result' = NotDue
         /\ UNCHANGED <<dbVars, sync_log, cloud, autoVars>>
    ELSE /\ push_changes(fault)
         /\ last_sync' = IF restarts_cooldown(result'.sync_result)
                         THEN Some(now) ELSE last_sync
         /\ now' = now + duration
         /\ attempts' = Append(attempts, [by |-> "sync_if_due", at |-> now])

(* Mutant of force_sync: _last_sync is left alone                          *)
force_sync_without_stamp(fault, duration) ==
    /\ push_changes(fault)
    /\ last_sync' = last_sync
    /\ now' = now + duration
    /\ attempts' = Append(attempts, [by |-> "force_sync", at |-> now])

force_sync(fault, duration) ==
    /\ push_changes(fault)
    /\ last_sync' = IF restarts_cooldown(result'.sync_result)
                    THEN Some(now + duration) ELSE last_sync
    /\ now' = now + duration
    /\ attempts' = Append(attempts, [by |-> "force_sync", at |-> now])

----------------------------------------------------------------------------
(* Item.discount_percent / current_price / is_expired evaluated on one     *)
(* item at two ages                                                        *)

NoQuery == [original_price |-> 0, days |-> 0, later_days |-> 0, discount |-> 0,
            price |-> 0, later_price |-> 0, expired |-> FALSE, done |-> FALSE]

evaluate_item ==
    /\ ~query.done
    /\ query' = [query EXCEPT
                    !.discount = discount_percent(query.days),
                    !.price = current_price(query.original_price, query.days),
                    !.later_price = current_price(query.original_price, query.later_days),
                    !.expired = is_expired(query.days),
                    !.done = TRUE]
    /\ UNCHANGED <<storeVars, result, dbVars, restarts, crashVars, syncVars>>

----------------------------------------------------------------------------
(* The calls a caller makes on the store in memory, with their inputs      *)

ConsignorIds(limit) == FIRST_CONSIGNOR_ID .. (FIRST_CONSIGNOR_ID + limit)
ItemIds(limit) == FIRST_ITEM_ID .. (FIRST_ITEM_ID + limit)

AddConsignor(limit, splits, fees) ==
    /\ consignor_counter < FIRST_CONSIGNOR_ID + limit
    /\ \E s \in Optional(splits), f \in Optional(fees) : add_consignor(s, f)
    /\ UNCHANGED outsideStore

UpdateTerms(limit, splits, fees) ==
    /\ \E c \in ConsignorIds(limit), s \in Optional(splits), f \in Optional(fees) :
            update_consignor_terms(c, s, f)
    /\ UNCHANGED outsideStore

AddItem(limit, climit, prices, entries) ==
    /\ item_counter < FIRST_ITEM_ID + limit
    /\ \E c \in ConsignorIds(climit), p \in prices, e \in entries : add_item(c, p, e)
    /\ UNCHANGED outsideStore

Sell(limit, dates) ==
    /\ \E i \in ItemIds(limit), d \in dates : sell_item(i, d)
    /\ UNCHANGED outsideStore

Return(limit, dates) ==
    /\ \E i \in ItemIds(limit), d \in dates : return_item_to_consignor(i, d)
    /\ UNCHANGED outsideStore

Expire(limit, dates) ==
    /\ \E i \in ItemIds(limit), d \in dates : expire_item(i, d)
    /\ UNCHANGED outsideStore

ProcessExpirations(dates) ==
    /\ \E d \in dates : process_expirations(d)
    /\ UNCHANGED outsideStore

ProcessPayout(limit, climit) ==
    /\ payout_counter < FIRST_PAYOUT_ID + limit
    /\ \E c \in ConsignorIds(climit) : process_payout(c)
    /\ UNCHANGED outsideStore

EmptyCloud ==
    [store_config |-> << >>, consignors |-> << >>, items |-> << >>,
     sales |-> << >>, payouts |-> << >>]

(* no remote target: CloudConfig.from_env() finds no host *)
(* AutoSync.__init__, and the clock at its start *)
NoAuto ==
    /\ last_sync = None
    /\ now = 0
    /\ attempts = << >>

NoCloud ==
    /\ sync_log = << >>
    /\ cloud = EmptyCloud
    /\ configured = FALSE
    /\ NoAuto

DbInit ==
    /\ restarts = 0
    /\ save_todo = << >>
    /\ row_basis = << >>
    /\ db_config = << >>
    /\ db_accounts = << >>
    /\ db_items = << >>
    /\ db_sales = << >>
    /\ db_payouts = << >>

----------------------------------------------------------------------------
(* SpecCore: the store in memory under every sequence of its operations    *)

InitCore == StoreInit /\ query = NoQuery /\ DbInit /\ NoCloud

NextCore ==
    \/ AddConsignor(MaxConsignors, SplitSet, FeeSet)
    \/ UpdateTerms(MaxConsignors, SplitSet, FeeSet)
    \/ AddItem(MaxItems, MaxConsignors, PriceSet, EntryDateSet)
    \/ Sell(MaxItems, DateSet)
    \/ Return(MaxItems, DateSet)
    \/ Expire(MaxItems, DateSet)
    \/ ProcessExpirations(DateSet)
    \/ ProcessPayout(MaxPayouts, MaxConsignors)

SpecCore == InitCore /\ [][NextCore]_vars

(* SpecExpire: one consignor's items entered on two days, sold, returned  *)
(* and swept for expiry on day 120 and the day after                       *)

NextExpire ==
    \/ AddConsignor(DbMaxConsignors, SplitSet, FeeSet)
    \/ AddItem(MaxItems, DbMaxConsignors, PriceSet, ExpiryEntrySet)
    \/ Sell(MaxItems, ExpiryDateSet)
    \/ Return(MaxItems, ExpiryDateSet)
    \/ ProcessExpirations(ExpiryDateSet)
    \/ ProcessPayout(MaxPayouts, DbMaxConsignors)

SpecExpire == InitCore /\ [][NextExpire]_vars

(* Spec: the store in memory together with its database: the operations   *)
(* of the store, the saves of the whole store and of single entities, and  *)
(* a restart, which rebuilds the store from the database                   *)

SaveStoreConfig == save_store_config /\ UNCHANGED outsideDb

(* history: what the store holds for an account when its row is written   *)
basis_of(a) ==
    [paid |-> {payouts[k].payout_id :
                   k \in {j \in DOMAIN payouts : payouts[j].consignor_id = a}},
     sold |-> {i \in DOMAIN items :
                   items[i].consignor_id = a /\ items[i].status = SOLD}]

outsideAccountRows == <<storeVars, query, restarts, save_todo, syncVars>>

SaveAccount ==
    /\ \E a \in DOMAIN consignors :
           /\ save_account(a)
           /\ row_basis' = Extend(row_basis, a, basis_of(a))
    /\ UNCHANGED outsideAccountRows

SaveItem ==
    /\ \E i \in DOMAIN items : save_item(i)
    /\ UNCHANGED outsideDb

SaveSaleRecord ==
    /\ \E i \in DOMAIN items : save_sale_record(i)
    /\ UNCHANGED outsideDb

SavePayout ==
    /\ \E k \in DOMAIN payouts : save_payout(k)
    /\ UNCHANGED outsideDb

SaveStore ==
    /\ save_store
    /\ row_basis' = [a \in DOMAIN row_basis \cup DOMAIN consignors |->
                         IF a \in DOMAIN consignors THEN basis_of(a) ELSE row_basis[a]]
    /\ UNCHANGED outsideAccountRows

LoadStore ==
    /\ restarts < MaxRestarts
    /\ restarts' = restarts + 1
    /\ load_store
    /\ save_todo' = << >>
    /\ UNCHANGED <<query, dbVars, row_basis, syncVars>>

Init == StoreInit /\ query = NoQuery /\ DbInit /\ NoCloud

Next ==
    \/ AddConsignor(DbMaxConsignors, {}, {})
    \/ AddItem(DbMaxItems, DbMaxConsignors, DbPriceSet, {0})
    \/ Sell(DbMaxItems, DbDateSet)
    \/ Return(DbMaxItems, DbDateSet)
    \/ Expire(DbMaxItems, DbDateSet)
    \/ ProcessExpirations(DbDateSet)
    \/ ProcessPayout(DbMaxPayouts, DbMaxConsignors)
    \/ SaveStoreConfig
    \/ SaveAccount
    \/ SaveItem
    \/ SaveSaleRecord
    \/ SavePayout
    \/ SaveStore
    \/ LoadStore

Spec == Init /\ [][Next]_vars

(* SpecCrash: the store and its database when the process can stop at any *)
(* point between two transactions, or inside one, and is then restarted    *)
(* from the database                                                       *)

Running == save_todo = << >> /\ result.status # "crashed"

SaveStoreBegin ==
    /\ result.status # "crashed"
    /\ save_store_begin
    /\ UNCHANGED <<storeVars, query, restarts, row_basis, syncVars>>

SaveStoreStep ==
    /\ result.status # "crashed"
    /\ save_store_step
    /\ row_basis' = IF Head(save_todo).kind = "account"
                    THEN Extend(row_basis, Head(save_todo).key,
                                basis_of(Head(save_todo).key))
                    ELSE row_basis
    /\ UNCHANGED <<storeVars, query, restarts, syncVars>>

SaveItemInterrupted ==
    /\ \E i \in DOMAIN items, done \in 0..2 : save_item_interrupted(i, done)
    /\ UNCHANGED outsideDb

NextCrash ==
    \/ Running /\ AddConsignor(DbMaxConsignors, {}, {})
    \/ Running /\ AddItem(DbMaxItems, DbMaxConsignors, DbPriceSet, {0})
    \/ Running /\ Sell(DbMaxItems, DbDateSet)
    \/ Running /\ ProcessPayout(DbMaxPayouts, DbMaxConsignors)
    \/ Running /\ SaveAccount
    \/ Running /\ SaveItem
    \/ Running /\ SavePayout
    \/ Running /\ SaveItemInterrupted
    \/ SaveStoreBegin
    \/ SaveStoreStep
    \/ LoadStore

SpecCrash == Init /\ [][NextCrash]_vars

(* SpecReload: the store and its database over several restarts, with the *)
(* saves of the whole store and of single entities                         *)

Reload ==
    /\ restarts < MaxReloads
    /\ restarts' = restarts + 1
    /\ load_store
    /\ save_todo' = << >>
    /\ UNCHANGED <<query, dbVars, row_basis, syncVars>>

NextReload ==
    \/ AddConsignor(DbMaxConsignors, {}, {})
    \/ AddItem(DbMaxItems, DbMaxConsignors, DbPriceSet, {0})
    \/ Sell(DbMaxItems, DbDateSet)
    \/ ProcessPayout(DbMaxPayouts, DbMaxConsignors)
    \/ SaveAccount
    \/ SaveItem
    \/ SavePayout
    \/ SaveStore
    \/ Reload

SpecReload == Init /\ [][NextReload]_vars

(* SpecSync: the store, its database, the remote database and the sync    *)
(* journal; another installation pushes to the same remote database       *)

PushFaults == {"none", "schema", "connect", "pending", "upsert", "commit", "mark"}
PullFaults == {"none", "fetch", "clear", "import"}
LocalFaults == {"journal"}

(* the pending rows of another installation: two accounts on the default  *)
(* terms and item 1 of the second one, price 50.00, first returned, or    *)
(* sold on its entry day and paid out                                      *)
OtherAccounts ==
    Extend(Extend(<< >>, FIRST_CONSIGNOR_ID,
                  [split_percent |-> DEFAULT_CONSIGNOR_SPLIT,
                   stocking_fee |-> DEFAULT_STOCKING_FEE, balance |-> 0,
                   sync_status |-> "pending"]),
           FIRST_CONSIGNOR_ID + 1,
           [split_percent |-> DEFAULT_CONSIGNOR_SPLIT,
            stocking_fee |-> DEFAULT_STOCKING_FEE, balance |-> 0,
            sync_status |-> "pending"])

OtherItem(status, status_date) ==
    Extend(<< >>, FIRST_ITEM_ID,
           [account_id |-> FIRST_CONSIGNOR_ID + 1, original_price |-> OtherPrice,
            entry_date |-> 0, status |-> status, status_date |-> status_date,
            sync_status |-> "pending"])

OtherSale ==
    LET shares == split_shares(OtherPrice, DEFAULT_CONSIGNOR_SPLIT,
                               DEFAULT_STOCKING_FEE)
    IN  [sale_date |-> 0, original_price |-> OtherPrice, sale_price |-> OtherPrice,
         discount_percent |-> 0, stocking_fee |-> DEFAULT_STOCKING_FEE,
         account_share |-> shares.consignor_share,
         store_share |-> shares.store_share, sync_status |-> "pending"]

OtherChanges ==
    {[config |-> << >>, accounts |-> OtherAccounts,
      items |-> OtherItem(RETURNED, OtherReturnDay), sales |-> << >>,
      payouts |-> << >>],
     [config |-> << >>, accounts |-> OtherAccounts,
      items |-> OtherItem(SOLD, 0),
      sales |-> Extend(<< >>, FIRST_ITEM_ID, OtherSale),
      payouts |-> Extend(<< >>, FIRST_PAYOUT_ID,
                         [account_id |-> FIRST_CONSIGNOR_ID + 1,
                          amount |-> OtherSale.account_share,
                          sync_status |-> "pending"])]}

outsideSync == <<storeVars, query, restarts, crashVars, configured, autoVars>>

PushChanges(limit, faults) ==
    /\ configured => Len(sync_log) < limit
    /\ \E fault \in faults :
           /\ fault = "upsert" => count_rows(get_pending_changes(LocalTables)) > 0
           /\ push_changes(fault)
    /\ UNCHANGED outsideSync

PushFull(limit, faults) ==
    /\ configured => Len(sync_log) < limit
    /\ \E fault \in faults :
           /\ fault = "upsert" => count_rows(LocalTables) > 0
           /\ push_full(fault)
    /\ UNCHANGED outsideSync

PullFull(limit, faults) ==
    /\ \E confirm \in BOOLEAN, fault \in faults :
           /\ (confirm /\ configured) => Len(sync_log) < limit
           /\ pull_full(confirm, fault)
    /\ UNCHANGED outsideSync

OtherInstancePush ==
    /\ configured
    /\ \E changes \in OtherChanges : other_instance_push(changes)
    /\ UNCHANGED outsideSync

InitSync ==
    /\ StoreInit /\ query = NoQuery /\ DbInit
    /\ sync_log = << >>
    /\ cloud = EmptyCloud
    /\ configured \in BOOLEAN
    /\ NoAuto

NextSync ==
    \/ AddConsignor(DbMaxConsignors, {}, {})
    \/ AddItem(DbMaxItems, DbMaxConsignors, DbPriceSet, {0})
    \/ Sell(DbMaxItems, DbDateSet)
    \/ ProcessPayout(DbMaxPayouts, DbMaxConsignors)
    \/ SaveStoreConfig
    \/ SaveAccount
    \/ SaveItem
    \/ SaveSaleRecord
    \/ SavePayout
    \/ SaveStore
    \/ PushChanges(MaxSyncs, PushFaults)
    \/ PullFull(MaxSyncs, PullFaults)
    \/ OtherInstancePush

SpecSync == InitSync /\ [][NextSync]_vars

(* SpecPush: one installation saving its whole store or one account and   *)
(* pushing, several times over                                             *)

NextPush ==
    \/ AddConsignor(DbMaxConsignors, {}, {})
    \/ AddItem(DbMaxItems, DbMaxConsignors, DbPriceSet, {0})
    \/ Sell(DbMaxItems, DbDateSet)
    \/ ProcessPayout(DbMaxPayouts, DbMaxConsignors)
    \/ SaveStore
    \/ SaveAccount
    \/ PushChanges(MaxPushes, PushFaults)

SpecPush == InitSync /\ [][NextPush]_vars

(* SpecMark: the sync bookkeeping of the storage alone: saves, the query  *)
(* for pending rows and mark_all_synced, with no remote database           *)

(* what get_pending_changes returned *)
PendingChanges(changes) == [status |-> "pending_changes", changes |-> changes]

GetPendingChanges ==
    /\ result' = PendingChanges(get_pending_changes(LocalTables))
    /\ UNCHANGED <<storeVars, query, dbVars, restarts, crashVars, syncVars>>

MarkAllSynced ==
    /\ set_local_tables(mark_all_synced(LocalTables))
    /\ result' = ReturnedNone("mark_all_synced")
    /\ UNCHANGED outsideDb

NextMark ==
    \/ AddConsignor(DbMaxConsignors, {}, {})
    \/ AddItem(DbMaxItems, DbMaxConsignors, DbPriceSet, {0})
    \/ Sell(DbMaxItems, DbDateSet)
    \/ ProcessPayout(DbMaxPayouts, DbMaxConsignors)
    \/ SaveStore
    \/ SaveAccount
    \/ GetPendingChanges
    \/ MarkAllSynced

SpecMark == InitSync /\ [][NextMark]_vars

(* SpecTerms: stores constructed with explicit default terms, accounts     *)
(* added without terms, the store saved and loaded again                   *)

TermSplitSet == {0, 55}
TermFeeSet == {0, 350}

(* ConsignmentStore(default_split, default_stocking_fee): a new store in   *)
(* place of the one in memory                                              *)
ConsignmentStore_new(split, fee) ==
    /\ default_split' = IF split # None
                        THEN or_default(split[1], DEFAULT_CONSIGNOR_SPLIT)
                        ELSE DEFAULT_CONSIGNOR_SPLIT
    /\ default_stocking_fee' = IF fee # None
                               THEN or_default(fee[1], DEFAULT_STOCKING_FEE)
                               ELSE DEFAULT_STOCKING_FEE
    /\ consignors' = << >>
    /\ items' = << >>
    /\ payouts' = << >>
    /\ consignor_counter' = FIRST_CONSIGNOR_ID
    /\ item_counter' = FIRST_ITEM_ID
    /\ payout_counter' = FIRST_PAYOUT_ID
    /\ result' = ReturnedNone("init")

NewStore(splits, fees) ==
    /\ \E s \in Optional(splits), f \in Optional(fees) : ConsignmentStore_new(s, f)
    /\ UNCHANGED outsideStore

NextTerms ==
    \/ NewStore(TermSplitSet, TermFeeSet)
    \/ AddConsignor(DbMaxConsignors, {}, {})
    \/ SaveStore
    \/ Reload

SpecTerms == InitCore /\ [][NextTerms]_vars

(* SpecMirror: one installation that saves single accounts and items,     *)
(* pushes, and is restarted                                                *)

NextMirror ==
    \/ AddConsignor(DbMaxConsignors, {}, {})
    \/ AddItem(DbMaxItems, DbMaxConsignors, PriceSet, {0})
    \/ SaveAccount
    \/ SaveItem
    \/ Reload
    \/ PushChanges(MaxPushes, PushFaults)

SpecMirror == InitSync /\ [][NextMirror]_vars

(* SpecFault: one installation saving, pushing, pushing in full and        *)
(* pulling, when the local database can fail as well as the remote one     *)

NextFault ==
    \/ AddConsignor(DbMaxConsignors, {}, {})
    \/ AddItem(DbMaxItems, DbMaxConsignors, DbPriceSet, {0})
    \/ Sell(DbMaxItems, DbDateSet)
    \/ ProcessPayout(DbMaxPayouts, DbMaxConsignors)
    \/ SaveStore
    \/ SaveAccount
    \/ PushChanges(MaxPushes, PushFaults \cup LocalFaults)
    \/ PushFull(MaxPushes, PushFaults \cup LocalFaults \cup {"premark"})
    \/ PullFull(MaxPushes, PullFaults \cup LocalFaults)

SpecFault == InitSync /\ [][NextFault]_vars

(* SpecAuto: AutoSync over a configured remote database, called at any    *)
(* time, between saves of an account                                       *)

outsideAuto == <<storeVars, query, restarts, crashVars, configured>>

Tick ==
    /\ now < MaxMinutes
    /\ now' = now + 1
    /\ UNCHANGED <<storeVars, result, query, dbVars, restarts, crashVars,
                   sync_log, cloud, configured, last_sync, attempts>>

SyncIfDue ==
    /\ Len(sync_log) < MaxAttempts
    /\ \E fault \in {"none", "connect"}, duration \in {0, 1} :
           /\ now + duration <= MaxMinutes
           /\ sync_if_due(fault, duration)
    /\ UNCHANGED outsideAuto

ForceSync ==
    /\ Len(sync_log) < MaxAttempts
    /\ \E fault \in {"none", "connect"}, duration \in {0, 1} :
           /\ now + duration <= MaxMinutes
           /\ force_sync(fault, duration)
    /\ UNCHANGED outsideAuto

InitAuto ==
    /\ StoreInit /\ query = NoQuery /\ DbInit
    /\ sync_log = << >>
    /\ cloud = EmptyCloud
    /\ configured = TRUE
    /\ NoAuto

NextAuto ==
    \/ AddConsignor(DbMaxConsignors, {}, {})
    \/ SaveAccount
    \/ Tick
    \/ SyncIfDue
    \/ ForceSync

SpecAuto == InitAuto /\ [][NextAuto]_vars

(* SpecDrain: AutoSync while the local writes come to an end: every       *)
(* account is saved once; attempts fail at the connection or at the commit *)
(* a bounded number of times; time is followed while a cooldown runs; and  *)
(* a push that the remote database accepts is made again and again         *)

PendingCount == count_rows(get_pending_changes(LocalTables))

FirstSave ==
    /\ SaveAccount
    /\ DOMAIN db_accounts' # DOMAIN db_accounts

Elapse ==
    /\ cooling_down
    /\ now' = now + 1
    /\ UNCHANGED <<storeVars, result, query, dbVars, restarts, crashVars,
                   sync_log, cloud, configured, last_sync, attempts>>

(* the attempts the model follows: any attempt while the journal is short, *)
(* and after that the attempts that find rows to push and push them        *)
Retry(fault) == Len(sync_log) < MaxPushes \/ (fault = "none" /\ PendingCount > 0)

DrainSyncIfDue ==
    /\ \E fault \in {"none", "connect", "commit"} :
           /\ Retry(fault)
           /\ sync_if_due(fault, 0)
    /\ UNCHANGED outsideAuto

DrainForceSync ==
    /\ \E fault \in {"none", "connect", "commit"} :
           /\ Retry(fault)
           /\ force_sync(fault, 0)
    /\ UNCHANGED outsideAuto

(* an attempt that finds pending rows and that the remote database accepts *)
AcceptedPush ==
    /\ PendingCount > 0
    /\ \/ ~cooling_down /\ sync_if_due("none", 0)
       \/ force_sync("none", 0)
    /\ UNCHANGED outsideAuto

NextDrain ==
    \/ AddConsignor(MaxConsignors, {}, {})
    \/ FirstSave
    \/ Elapse
    \/ DrainSyncIfDue
    \/ DrainForceSync

SpecDrain ==
    /\ InitAuto
    /\ [][NextDrain]_vars
    /\ WF_vars(Elapse)
    /\ SF_vars(AcceptedPush)

(* SpecSale: one consignor and one item, over the wide input sets          *)

NextSale ==
    \/ AddConsignor(1, SaleSplitSet, SaleFeeSet)
    \/ UpdateTerms(1, SaleSplitSet, SaleFeeSet)
    \/ AddItem(1, 1, SalePriceSet, {0})
    \/ Sell(1, SaleDateSet)

SpecSale == InitCore /\ [][NextSale]_vars

(* SpecPrice: the pricing functions over every age up to MaxAge            *)

InitPrice ==
    /\ StoreInit
    /\ DbInit
    /\ NoCloud
    /\ \E p \in QueryPriceSet, a \in 0..MaxAge, g \in QueryGapSet :
          query = [NoQuery EXCEPT !.original_price = p, !.days = a,
                                  !.later_days = a + g]

NextPrice == evaluate_item

SpecPrice == InitPrice /\ [][NextPrice]_vars

----------------------------------------------------------------------------
(* Properties *)

Terminal == {SOLD, RETURNED, EXPIRED}

SaleRecords ==
    {items[i].sale_record[1] : i \in {j \in DOMAIN items : items[j].sale_record # None}}

(* The discount table as the specification states it *)
TierDiscount(days) ==
    IF days >= 90 THEN 75 ELSE IF days >= 60 THEN 50 ELSE IF days >= 30 THEN 25 ELSE 0

(* s cents is n/100 cents rounded to the nearest cent, a tie going up (away *)
(* from zero for a negative amount, as Decimal's ROUND_HALF_UP does)       *)
NearestCentHalfUp(s, n) ==
    IF n >= 0 THEN -50 < 100 * s - n /\ 100 * s - n <= 50
              ELSE -50 <= 100 * s - n /\ 100 * s - n < 50

(* C1: once an item's status is Sold, Returned or Expired, no operation of *)
(* the store (sell, return, expire, processExpirations, processPayout,     *)
(* add, update terms) changes that status again.                           *)
C1_TerminalAbsorbing ==
    [][\A i \in DOMAIN items :
          items[i].status \in Terminal =>
              i \in DOMAIN items' /\ items'[i].status = items[i].status]_vars

C1_Witness ==
    /\ \E i, j \in DOMAIN items : items[i].status = SOLD /\ items[j].status = RETURNED
    /\ payouts # << >>
    /\ result.status = "ValueError"

(* C2: in the store in memory, and in every item the database yields      *)
(* (load_store, load_item), an item carries a sale record if and only if   *)
(* its status is Sold.                                                     *)
SaleRecordIffSold(item) == (item.sale_record # None) <=> (item.status = SOLD)

C2_SaleRecordIffSold ==
    /\ \A i \in DOMAIN items : SaleRecordIffSold(items[i])
    /\ \A i \in DOMAIN db_items : SaleRecordIffSold(load_item(i)[1])

(* C3: sell on an Active item sets it Sold with the new sale record and    *)
(* raises the owner's balance by exactly the record's consignor share;     *)
(* every other item, every other balance and the payouts are unchanged.    *)
C3_SellEffect ==
    [][\A i \in ItemIds(MaxItems), d \in DateSet :
          (i \in DOMAIN items /\ items[i].status = ACTIVE /\ sell_item(i, d)) =>
              LET owner == items[i].consignor_id
                  rec == items'[i].sale_record
              IN  /\ items'[i].status = SOLD
                  /\ rec # None
                  /\ rec[1].item_id = i
                  /\ rec[1].sale_date = d
                  /\ consignors'[owner].balance =
                         consignors[owner].balance + rec[1].consignor_share
                  /\ DOMAIN items' = DOMAIN items
                  /\ \A j \in DOMAIN items \ {i} : items'[j] = items[j]
                  /\ DOMAIN consignors' = DOMAIN consignors
                  /\ \A c \in DOMAIN consignors \ {owner} :
                         consignors'[c].balance = consignors[c].balance
                  /\ payouts' = payouts]_vars

C3_Witness ==
    \E i, j \in DOMAIN items :
        /\ items[i].status = SOLD
        /\ items[j].status = ACTIVE
        /\ Cardinality(DOMAIN consignors) = 2
        /\ consignors[items[i].consignor_id].balance = items[i].sale_record[1].consignor_share
        /\ items[i].sale_record[1].consignor_share > 0
        /\ result = Ok("sell_item", i)

(* C4: sell, return and expire on an item that is not Active, or on an     *)
(* unknown item id, raise and leave items, balances and payouts as they    *)
(* were.                                                                   *)
C4_RejectedCallChangesNothing ==
    [][\A i \in ItemIds(MaxItems), d \in DateSet :
          ( /\ (i \notin DOMAIN items \/ items[i].status # ACTIVE)
            /\ \/ sell_item(i, d)
               \/ return_item_to_consignor(i, d)
               \/ expire_item(i, d) ) =>
              /\ result'.status = "ValueError"
              /\ items' = items
              /\ consignors' = consignors
              /\ payouts' = payouts]_vars

C4_Witness ==
    /\ result.status = "ValueError"
    /\ \E i \in DOMAIN items : items[i].status = EXPIRED
    /\ \E c \in DOMAIN consignors : consignors[c].balance > 0

(* C5: every sale record has consignor_share + store_share = sale_price    *)
(* and consignor_share >= 0, whatever the price, age, fee and split        *)
(* percent (also outside 0..100).                                          *)
C5_SharesSumToPrice ==
    \A r \in SaleRecords :
        /\ r.consignor_share + r.store_share = r.sale_price
        /\ r.consignor_share >= 0

C5_Witness ==
    \E r \in SaleRecords : r.store_share < 0 /\ r.consignor_share > r.sale_price

(* C6: whenever the stocking fee exceeds the sale price (net < 0), the     *)
(* sale record has consignor_share = 0 and store_share = sale_price, for   *)
(* every split percent.                                                    *)
C6_FeeAbovePriceClamps ==
    \A r \in SaleRecords :
        r.sale_price - r.stocking_fee < 0 =>
            r.consignor_share = 0 /\ r.store_share = r.sale_price

(* C7: the discount is 0 for ages 0..29, 25 for 30..59, 50 for 60..89 and  *)
(* 75 from 90 on; the item is expired exactly from age 120 on.             *)
C7_DiscountTiers ==
    query.done =>
        /\ (query.days \in 0..29 => query.discount = 0)
        /\ (query.days \in 30..59 => query.discount = 25)
        /\ (query.days \in 60..89 => query.discount = 50)
        /\ (query.days >= 90 => query.discount = 75)
        /\ (query.expired <=> query.days >= 120)

C7_Witness == query.done /\ query.days = 120 /\ query.expired /\ query.discount = 75

(* C8: for a fixed original price the current price never rises with age:  *)
(* the price at a later age is at most the price at an earlier age.        *)
C8_PriceNonIncreasing ==
    query.done => query.later_price <= query.price

C8_Witness ==
    query.done /\ query.days = 59 /\ query.later_days = 60
               /\ query.later_price < query.price

(* C9: the current price is original * (100 - discount) / 100 rounded to   *)
(* whole cents, half a cent always going up: 0.10 at 25% off is 0.08 and   *)
(* 0.30 at 25% off is 0.23.                                                *)
C9_PriceRoundsHalfUp ==
    query.done =>
        /\ NearestCentHalfUp(query.price,
                             query.original_price * (100 - TierDiscount(query.days)))
        /\ (query.original_price = 10 /\ query.days \in 30..59 => query.price = 8)
        /\ (query.original_price = 30 /\ query.days \in 30..59 => query.price = 23)

C9_Witness ==
    query.done /\ query.original_price = 30 /\ query.discount = 25 /\ query.price = 23

(* C10 as stated: when net = sale price - fee >= 0, sell records           *)
(* consignor_share = net * split / 100 rounded half up and store_share =   *)
(* sale_price - consignor_share, from the owner's terms and the item's age *)
(* at the sale date.                                                       *)
SaleFollowsFormula(i, d) ==
    LET item == items[i]
        terms == consignors[item.consignor_id]
        rec == items'[i].sale_record[1]
        discount == TierDiscount(d - item.entry_date)
    IN  /\ rec.discount_percent = discount
        /\ NearestCentHalfUp(rec.sale_price, item.original_price * (100 - discount))
        /\ rec.stocking_fee = terms.stocking_fee
        /\ NearestCentHalfUp(rec.consignor_share,
                             (rec.sale_price - terms.stocking_fee) * terms.split_percent)
        /\ rec.store_share = rec.sale_price - rec.consignor_share
        /\ (terms.split_percent = 60 /\ terms.stocking_fee = 200 /\ rec.sale_price = 10000
               => rec.consignor_share = 5880 /\ rec.store_share = 4120)
        /\ (terms.split_percent = 60 /\ terms.stocking_fee = 200 /\ rec.sale_price = 7500
               => rec.consignor_share = 4380)

SaleNet(i, d) ==
    current_price(items[i].original_price, d - items[i].entry_date)
        - consignors[items[i].consignor_id].stocking_fee

C10_SplitFormula_AsStated ==
    [][\A i \in ItemIds(1), d \in SaleDateSet :
          ( /\ i \in DOMAIN items /\ items[i].status = ACTIVE
            /\ sell_item(i, d)
            /\ SaleNet(i, d) >= 0 ) => SaleFollowsFormula(i, d)]_vars

(* C10 as amended: the same, for a split percent >= 0; a negative split    *)
(* percent on a net >= 0 gives a negative product, which sell clamps to a  *)
(* consignor share of 0 and a store share of the whole sale price.         *)
C10_SplitFormula ==
    [][\A i \in ItemIds(1), d \in SaleDateSet :
          ( /\ i \in DOMAIN items /\ items[i].status = ACTIVE
            /\ sell_item(i, d)
            /\ SaleNet(i, d) >= 0
            /\ consignors[items[i].consignor_id].split_percent >= 0 )
              => SaleFollowsFormula(i, d)]_vars

C10_Witness ==
    \E r \in SaleRecords :
        /\ r.sale_price = 7500 /\ r.discount_percent = 25 /\ r.stocking_fee = 200
        /\ r.consignor_share = 4380 /\ r.store_share = 3120

(* C11: every consignor's balance is >= 0 in every state reached from the  *)
(* empty store through add consignor, add item, update terms, sell,        *)
(* return, expire, process_expirations and process_payout, whatever split  *)
(* percent and stocking fee the consignors hold.                           *)
C11_BalanceNonNegative ==
    \A c \in DOMAIN consignors : consignors[c].balance >= 0

C11_Witness ==
    /\ payouts # << >>
    /\ \A c \in DOMAIN consignors : consignors[c].balance = 0
    /\ \E i \in DOMAIN items :
            /\ items[i].status = SOLD
            /\ consignors[items[i].consignor_id].split_percent < 0
            /\ items[i].sale_record[1].consignor_share = 0
            /\ items[i].sale_record[1].sale_price > items[i].sale_record[1].stocking_fee

(* C12: process_payout on a balance of 0 returns no payout, adds none and  *)
(* leaves the balance at 0; on a balance > 0 it appends exactly one payout *)
(* whose amount is the balance before the call and sets the balance to 0;  *)
(* no other consignor and no item changes.                                 *)
C12_PayoutEffect ==
    [][\A c \in ConsignorIds(MaxConsignors) :
          (c \in DOMAIN consignors /\ process_payout(c)) =>
              /\ items' = items
              /\ DOMAIN consignors' = DOMAIN consignors
              /\ \A o \in DOMAIN consignors \ {c} : consignors'[o] = consignors[o]
              /\ consignors'[c].balance = 0
              /\ consignors[c].balance = 0 =>
                     /\ result' = ReturnedNone("process_payout")
                     /\ payouts' = payouts
              /\ consignors[c].balance > 0 =>
                     /\ Len(payouts') = Len(payouts) + 1
                     /\ SubSeq(payouts', 1, Len(payouts)) = payouts
                     /\ payouts'[Len(payouts')].amount = consignors[c].balance
                     /\ payouts'[Len(payouts')].consignor_id = c
                     /\ result' = Ok("process_payout", payouts'[Len(payouts')].payout_id)]_vars

C12_Witness ==
    /\ Len(payouts) >= 1
    /\ payouts[1].amount > 0
    /\ consignors[payouts[1].consignor_id].balance = 0
    /\ result = ReturnedNone("process_payout")

(* C13: a payout and the draining of the balance are saved atomically: at  *)
(* no point at which the process can stop (between the transactions of     *)
(* save_store, or between per-entity saves) does the database hold an      *)
(* accounts row written after a payout without that payout's row, or a     *)
(* payouts row while the accounts row is still the one from before it.     *)
DurablePayoutsOf(a) ==
    {q \in DOMAIN db_payouts : db_payouts[q].account_id = a}

C13_PayoutSavedAtomically ==
    \A a \in DOMAIN db_accounts : row_basis[a].paid = DurablePayoutsOf(a)

(* C14: a sale is saved atomically across the account and the item: at no  *)
(* point at which the process can stop does the database hold an accounts  *)
(* row credited with a sale while the items row is not Sold, or an items   *)
(* row Sold while the accounts row is the one from before the sale.        *)
DurableSoldOf(a) ==
    {i \in DOMAIN db_items : db_items[i].account_id = a /\ db_items[i].status = SOLD}

C14_SaleSavedAtomically ==
    \A a \in DOMAIN db_accounts : row_basis[a].sold = DurableSoldOf(a)

(* C15: save_item on an item that carries a sale record writes the items   *)
(* row and the sales row in one transaction: when it returns, raises or is *)
(* cut short after any of its statements, either both rows are the saved   *)
(* ones or the two tables are as they were.                                *)
C15_ItemAndSaleRowTogether ==
    [][\A i \in ItemIds(DbMaxItems), done \in 0..2 :
          ( /\ i \in DOMAIN items
            /\ items[i].sale_record # None
            /\ (save_item(i) \/ save_item_interrupted(i, done)) ) =>
              \/ db_items' = db_items /\ db_sales' = db_sales
              \/ /\ i \in DOMAIN db_items' /\ i \in DOMAIN db_sales'
                 /\ db_items'[i] = item_row(items[i])
                 /\ db_sales'[i] = sale_row(items[i].sale_record[1])]_vars

C15_Witness ==
    \E i \in DOMAIN items :
        /\ result = Crashed(i)
        /\ items[i].sale_record # None
        /\ i \in DOMAIN db_items /\ db_items[i].status = ACTIVE
        /\ i \notin DOMAIN db_sales

(* C16: every write to the database (save_account, save_item,              *)
(* save_payout, save_sale_record, save_store_config) that succeeds leaves  *)
(* each row it wrote with sync_status pending, whatever the status and the *)
(* values the row had before                                               *)
C16_WritesLeavePending ==
    [][/\ \A a \in ConsignorIds(DbMaxConsignors) :
              save_account(a) => db_accounts'[a].sync_status = "pending"
       /\ \A i \in ItemIds(DbMaxItems) :
              (save_item(i) /\ result' # IntegrityError) =>
                  /\ db_items'[i].sync_status = "pending"
                  /\ items[i].sale_record # None =>
                         db_sales'[i].sync_status = "pending"
       /\ \A i \in ItemIds(DbMaxItems) :
              (save_sale_record(i) /\ result' # IntegrityError) =>
                  db_sales'[i].sync_status = "pending"
       /\ \A k \in 1..(DbMaxPayouts + 1) :
              (save_payout(k) /\ result' # IntegrityError) =>
                  db_payouts'[payouts[k].payout_id].sync_status = "pending"
       /\ save_store_config =>
              \A key \in DOMAIN config_rows(<< >>) :
                  db_config'[key].sync_status = "pending"]_vars

(* a push has succeeded, the remote account row still equals the local    *)
(* one, every other local row is still synced, and the account row is     *)
(* pending again: it was saved again with the values it had                *)
C16_Witness ==
    /\ Len(sync_log) = 1
    /\ sync_log[1].sync_type = "push" /\ sync_log[1].status = "success"
    /\ \E a \in DOMAIN db_accounts :
           /\ db_accounts[a].sync_status = "pending"
           /\ a \in DOMAIN cloud.consignors
           /\ cloud.consignors[a] = remote_consignor(db_accounts[a], INSTANCE_ID)
    /\ DOMAIN db_items # {} /\ DOMAIN db_config # {}
    /\ \A i \in DOMAIN db_items : db_items[i].sync_status = "synced"
    /\ \A key \in DOMAIN db_config : db_config[key].sync_status = "synced"

(* C17: after a push_changes that returns success no row of any table is   *)
(* pending; and a push_changes that reaches the remote database while the  *)
(* last journal entry is a successful push and no row has been written     *)
(* since returns no_changes with 0 records synced and no error             *)
C17_PushDrainsPending ==
    [][\A fault \in PushFaults :
          (configured /\ push_changes(fault)) =>
              /\ result'.sync_result.status = "success" =>
                     count_rows(get_pending_changes(LocalTables')) = 0
              /\ ( /\ fault = "none"
                   /\ sync_log # << >>
                   /\ sync_log[Len(sync_log)].sync_type = "push"
                   /\ sync_log[Len(sync_log)].status = "success"
                   /\ LocalTables = mark_all_synced(LocalTables) ) =>
                     result' = Synced(SyncResult("push", "no_changes", 0, None))]_vars

(* a push of some rows succeeded and the next push found nothing to send   *)
C17_Witness ==
    /\ Len(sync_log) = 2
    /\ sync_log[1].status = "success" /\ sync_log[1].records_synced > 0
    /\ sync_log[2].status = "success" /\ sync_log[2].records_synced = 0
    /\ result.status = "sync_result"
    /\ result.sync_result = SyncResult("push", "no_changes", 0, None)
    /\ DOMAIN db_accounts # {}
    /\ count_rows(get_pending_changes(LocalTables)) = 0

WhollyOverwritten(remote, changes, instance) ==
    /\ \A k \in DOMAIN changes.config :
           remote.store_config[k] = remote_config(changes.config[k], instance)
    /\ \A k \in DOMAIN changes.accounts :
           remote.consignors[k] = remote_consignor(changes.accounts[k], instance)
    /\ \A k \in DOMAIN changes.items :
           remote.items[k] = remote_item(changes.items[k], instance)
    /\ \A k \in DOMAIN changes.sales :
           remote.sales[k] = remote_sale(changes.sales[k], instance)
    /\ \A k \in DOMAIN changes.payouts :
           remote.payouts[k] = remote_payout(changes.payouts[k], instance)

(* C19: remote conflicts are resolved row by row, last write wins: once a  *)
(* push has committed, by this installation or by another one, the remote  *)
(* row of every key it pushed holds the pusher's value in every data       *)
(* column and the pusher's instance identifier                             *)
C19_RowLevelLastWriteWins ==
    [][/\ \A fault \in {"none", "mark"} :
              (configured /\ push_changes(fault)) =>
                  WhollyOverwritten(cloud', get_pending_changes(LocalTables),
                                    INSTANCE_ID)
       /\ \A changes \in OtherChanges :
              other_instance_push(changes) =>
                  WhollyOverwritten(cloud', changes, OTHER_INSTANCE_ID)]_vars

(* C20: pull_full(confirm = False) returns a failed result that says the   *)
(* recovery was not confirmed, whether or not a remote database is         *)
(* configured and whatever the remote database would answer, and leaves    *)
(* every local row, every sync_status, the journal and the remote rows as  *)
(* they were                                                               *)
C20_UnconfirmedPullRefused ==
    [][\A fault \in PullFaults :
          pull_full(FALSE, fault) =>
              /\ result' = Synced(SyncResult("pull", "failed", 0,
                                             Some(NOT_CONFIRMED)))
              /\ LocalTables' = LocalTables
              /\ sync_log' = sync_log
              /\ cloud' = cloud]_vars

(* an unconfirmed pull was refused with a remote database configured that  *)
(* holds another installation's rows, while local rows are pending         *)
C20_Witness ==
    /\ configured
    /\ result.status = "sync_result"
    /\ result.sync_result.error_message = Some(NOT_CONFIRMED)
    /\ sync_log = << >>
    /\ FIRST_CONSIGNOR_ID + 1 \in DOMAIN cloud.consignors
    /\ \E a \in DOMAIN db_accounts : db_accounts[a].sync_status = "pending"

(* a local table holds exactly the keys of the remote table *)
SameKeys(local, remote) == DOMAIN local = DOMAIN remote

(* C21: after a confirmed pull_full that returns success the five local    *)
(* tables hold exactly the remote rows, key by key and column by column,   *)
(* whatever they held before, and every local row is synced, so that       *)
(* get_pending_changes is empty for every table                            *)
C21_PullReplacesLocal ==
    [][\A fault \in PullFaults :
          ( /\ configured
            /\ pull_full(TRUE, fault)
            /\ result'.sync_result.status = "success" ) =>
              /\ SameKeys(db_config', cloud.store_config)
              /\ SameKeys(db_accounts', cloud.consignors)
              /\ SameKeys(db_items', cloud.items)
              /\ SameKeys(db_sales', cloud.sales)
              /\ SameKeys(db_payouts', cloud.payouts)
              /\ \A k \in DOMAIN cloud.store_config :
                     remote_config(db_config'[k], cloud.store_config[k].source_instance)
                         = cloud.store_config[k]
              /\ \A k \in DOMAIN cloud.consignors :
                     remote_consignor(db_accounts'[k], cloud.consignors[k].source_instance)
                         = cloud.consignors[k]
              /\ \A k \in DOMAIN cloud.items :
                     remote_item(db_items'[k], cloud.items[k].source_instance)
                         = cloud.items[k]
              /\ \A k \in DOMAIN cloud.sales :
                     remote_sale(db_sales'[k], cloud.sales[k].source_instance)
                         = cloud.sales[k]
              /\ \A k \in DOMAIN cloud.payouts :
                     remote_payout(db_payouts'[k], cloud.payouts[k].source_instance)
                         = cloud.payouts[k]
              /\ LocalTables' = mark_all_synced(LocalTables')
              /\ count_rows(get_pending_changes(LocalTables')) = 0]_vars

(* a pull of a populated remote database succeeded after this installation *)
(* had saved its own account row, which had never been pushed: the local   *)
(* rows are now the other installation's, all synced                       *)
C21_Witness ==
    /\ Len(sync_log) = 1
    /\ sync_log[1].sync_type = "pull" /\ sync_log[1].status = "success"
    /\ sync_log[1].records_synced > 0
    /\ row_basis # << >>
    /\ DOMAIN db_config = {}
    /\ FIRST_CONSIGNOR_ID + 1 \in DOMAIN db_accounts
    /\ FIRST_ITEM_ID \in DOMAIN db_items
    /\ db_items[FIRST_ITEM_ID].original_price = OtherPrice
    /\ count_rows(get_pending_changes(LocalTables)) = 0

AllFaults == PushFaults \cup PullFaults \cup LocalFaults \cup {"premark"}

(* C22: with no remote database configured, push_changes, push_full and    *)
(* a confirmed pull_full each return a failed result that says the         *)
(* database is not configured, raise nothing, and leave the local rows,    *)
(* their sync_status and the journal as they were                          *)
C22_NotConfiguredFailsCleanly ==
    [][\A fault \in AllFaults :
          ( /\ ~configured
            /\ push_changes(fault) \/ push_full(fault) \/ pull_full(TRUE, fault) ) =>
              /\ result'.status = "sync_result"
              /\ result'.sync_result.status = "failed"
              /\ result'.sync_result.records_synced = 0
              /\ result'.sync_result.error_message =
                     Some("Cloud database not configured")
              /\ LocalTables' = LocalTables
              /\ sync_log' = sync_log]_vars

(* a sync call was refused for want of a configuration while local rows    *)
(* wait to be pushed                                                       *)
C22_Witness ==
    /\ ~configured
    /\ result.status = "sync_result"
    /\ result.sync_result.error_message = Some("Cloud database not configured")
    /\ sync_log = << >>
    /\ \E a \in DOMAIN db_accounts : db_accounts[a].sync_status = "pending"

(* C23: a sync call never raises: when a step of push_changes, push_full   *)
(* or a confirmed pull_full fails (the journal write, the local            *)
(* pre-marking, the schema, the connection, an upsert, the commit, the     *)
(* local marking, the fetch, the import), the call returns a failed        *)
(* SyncResult                                                              *)
C23_SyncNeverRaises ==
    [][\A fault \in AllFaults \ {"none"} :
          ( /\ configured
            /\ push_changes(fault) \/ push_full(fault) \/ pull_full(TRUE, fault) ) =>
              /\ result'.status = "sync_result"
              /\ result'.sync_result.status = "failed"]_vars

(* C25: after load_store the next id of each kind is greater than every    *)
(* persisted id of that kind, however the rows were persisted              *)
C25_NoIdCollisionAfterLoad ==
    [][load_store =>
          /\ \A a \in DOMAIN db_accounts : consignor_counter' > a
          /\ \A i \in DOMAIN db_items : item_counter' > i
          /\ \A q \in DOMAIN db_payouts : payout_counter' > q]_vars

(* the database is as save_store leaves it for the store in memory *)
StoreSaved ==
    LET sold == {i \in DOMAIN items : items[i].sale_record # None}
        payout_ids == {payouts[k].payout_id : k \in DOMAIN payouts}
    IN  /\ db_config = config_rows(db_config)
        /\ \A a \in DOMAIN consignors :
               a \in DOMAIN db_accounts /\ db_accounts[a] = account_row(consignors[a])
        /\ \A i \in DOMAIN items :
               i \in DOMAIN db_items /\ db_items[i] = item_row(items[i])
        /\ \A i \in sold :
               i \in DOMAIN db_sales /\ db_sales[i] = sale_row(items[i].sale_record[1])
        /\ \A q \in payout_ids :
               /\ q \in DOMAIN db_payouts
               /\ \E k \in DOMAIN payouts :
                      payouts[k].payout_id = q /\ db_payouts[q] = payout_row(payouts[k])

PayoutSet(list) == {list[k] : k \in DOMAIN list}

(* C24: load_store on the database that save_store has just written gives  *)
(* a store with the same accounts (terms and balances), the same items     *)
(* (status, status date and sale record) and the same payouts              *)
C24_SaveLoadRoundTrip ==
    [][(StoreSaved /\ load_store) =>
          /\ consignors' = consignors
          /\ items' = items
          /\ PayoutSet(payouts') = PayoutSet(payouts)]_vars

(* C26: push_full pushes every local row whatever its sync_status was:     *)
(* when it returns success or no_changes, the number of records synced is  *)
(* the number of local rows, the remote database holds a row written by    *)
(* this installation for every local row of every table, and every local   *)
(* row is synced                                                           *)
C26_PushFullPushesEveryRow ==
    [][\A fault \in AllFaults :
          ( /\ configured
            /\ push_full(fault)
            /\ result'.status = "sync_result"
            /\ result'.sync_result.status \in {"success", "no_changes"} ) =>
              /\ result'.sync_result.records_synced = count_rows(LocalTables)
              /\ \A k \in DOMAIN db_config :
                     /\ k \in DOMAIN cloud'.store_config
                     /\ cloud'.store_config[k].source_instance = INSTANCE_ID
              /\ \A k \in DOMAIN db_accounts :
                     /\ k \in DOMAIN cloud'.consignors
                     /\ cloud'.consignors[k].source_instance = INSTANCE_ID
              /\ \A k \in DOMAIN db_items :
                     /\ k \in DOMAIN cloud'.items
                     /\ cloud'.items[k].source_instance = INSTANCE_ID
              /\ \A k \in DOMAIN db_sales :
                     /\ k \in DOMAIN cloud'.sales
                     /\ cloud'.sales[k].source_instance = INSTANCE_ID
              /\ \A k \in DOMAIN db_payouts :
                     /\ k \in DOMAIN cloud'.payouts
                     /\ cloud'.payouts[k].source_instance = INSTANCE_ID
              /\ SameKeys(db_config', db_config) /\ SameKeys(db_accounts', db_accounts)
              /\ SameKeys(db_items', db_items) /\ SameKeys(db_sales', db_sales)
              /\ SameKeys(db_payouts', db_payouts)
              /\ count_rows(get_pending_changes(LocalTables')) = 0]_vars

(* two pushes in a row succeeded with no row written in between, and the   *)
(* second one sent every local row again                                   *)
C26_Witness ==
    /\ Len(sync_log) = 2
    /\ sync_log[1].sync_type = "push" /\ sync_log[1].status = "success"
    /\ sync_log[2].sync_type = "push" /\ sync_log[2].status = "success"
    /\ sync_log[1].records_synced = count_rows(LocalTables)
    /\ sync_log[2].records_synced = count_rows(LocalTables)
    /\ result.status = "sync_result"
    /\ result.sync_result = SyncResult("push", "success", count_rows(LocalTables), None)
    /\ DOMAIN db_items # {}
    /\ count_rows(get_pending_changes(LocalTables)) = 0

(* C27: any two pushes started by sync_if_due are at least                 *)
(* interval_minutes apart, whatever the result of the earlier one          *)
C27_AutoSyncMinimumInterval ==
    \A i \in DOMAIN attempts : \A j \in DOMAIN attempts :
        ( /\ i < j
          /\ attempts[i].by = "sync_if_due"
          /\ attempts[j].by = "sync_if_due" ) =>
            attempts[j].at - attempts[i].at >= IntervalMinutes

(* C28: force_sync always starts a push, whatever the time since the last  *)
(* sync; when its push ends in success or no_changes the cooldown starts   *)
(* again at that moment; and a sync_if_due called less than                *)
(* interval_minutes after the cooldown started returns None and starts no  *)
(* push                                                                    *)
C28_ForceSyncRestartsCooldown ==
    [][\A fault \in {"none", "connect"}, duration \in {0, 1} :
          /\ force_sync(fault, duration) =>
                 /\ Len(sync_log') = Len(sync_log) + 1
                 /\ result'.status = "sync_result"
                 /\ restarts_cooldown(result'.sync_result) => last_sync' = Some(now')
          /\ ( /\ sync_if_due(fault, duration)
               /\ last_sync # None
               /\ now - last_sync[1] < IntervalMinutes ) =>
                 /\ result' = NotDue
                 /\ sync_log' = sync_log
                 /\ cloud' = cloud
                 /\ LocalTables' = LocalTables]_vars

(* a force_sync pushed a row during the cooldown of an earlier sync; an    *)
(* account row was saved after it, and the sync_if_due called less than    *)
(* interval_minutes after the force_sync ended returned None               *)
C28_Witness ==
    /\ Len(attempts) = 2
    /\ attempts[2].by = "force_sync"
    /\ attempts[2].at - attempts[1].at < IntervalMinutes
    /\ sync_log[2].status = "success" /\ sync_log[2].records_synced > 0
    /\ last_sync # None /\ last_sync[1] >= attempts[2].at
    /\ now > last_sync[1] /\ now - last_sync[1] < IntervalMinutes
    /\ result = NotDue
    /\ \E a \in DOMAIN db_accounts : db_accounts[a].sync_status = "pending"

(* C29: process_expirations(as_of) sets to Expired exactly the items that  *)
(* are Active and aged >= 120 days at as_of, returns exactly that set, and *)
(* leaves every other item, every balance and every payout as they were;   *)
(* after it no item is left that a second call with the same as_of would   *)
(* expire, so that call returns the empty set.                             *)
DueAt(its, as_of) ==
    {i \in DOMAIN its : its[i].status = ACTIVE /\ as_of - its[i].entry_date >= 120}

C29_ProcessExpirations ==
    [][\A d \in ExpiryDateSet :
          process_expirations(d) =>
              /\ result' = Expirations(DueAt(items, d))
              /\ DOMAIN items' = DOMAIN items
              /\ \A i \in DueAt(items, d) :
                    /\ items'[i].status = EXPIRED
                    /\ items'[i].status_date = d
              /\ \A i \in DOMAIN items \ DueAt(items, d) : items'[i] = items[i]
              /\ consignors' = consignors
              /\ payouts' = payouts
              /\ DueAt(items', d) = {}]_vars

C29_Witness ==
    /\ result.status = "expirations"
    /\ Cardinality(result.expired) = 1
    /\ \E i \in result.expired :
            /\ items[i].status = EXPIRED
            /\ items[i].status_date - items[i].entry_date = 120
    /\ \E j \in DOMAIN items :
            /\ items[j].status = ACTIVE
            /\ items[j].entry_date = 1

(* C30: every push_changes, push_full or confirmed pull_full on a          *)
(* configured remote database adds exactly one entry to the journal and    *)
(* leaves the earlier entries alone; at the end of the call that entry is  *)
(* success or failed, never in_progress; when it is success its            *)
(* records_synced is the number of rows that were pending (push_changes),  *)
(* of local rows (push_full) or of remote rows fetched (pull_full), and    *)
(* the returned result carries the same count.                             *)
FetchedRows ==
    Cardinality(DOMAIN cloud.store_config) + Cardinality(DOMAIN cloud.consignors)
        + Cardinality(DOMAIN cloud.items) + Cardinality(DOMAIN cloud.sales)
        + Cardinality(DOMAIN cloud.payouts)

Journaled(sync_type, rows) ==
    /\ Len(sync_log') = Len(sync_log) + 1
    /\ SubSeq(sync_log', 1, Len(sync_log)) = sync_log
    /\ sync_log'[Len(sync_log')].sync_type = sync_type
    /\ sync_log'[Len(sync_log')].status \in {"success", "failed"}
    /\ sync_log'[Len(sync_log')].status = "success" =>
            /\ sync_log'[Len(sync_log')].records_synced = rows
            /\ result'.status = "sync_result"
            /\ result'.sync_result.records_synced = rows

C30_EveryAttemptJournaled ==
    [][\A fault \in AllFaults :
          /\ (configured /\ push_changes(fault)) =>
                 Journaled("push", count_rows(get_pending_changes(LocalTables)))
          /\ (configured /\ push_full(fault)) =>
                 Journaled("push", count_rows(LocalTables))
          /\ (configured /\ pull_full(TRUE, fault)) =>
                 Journaled("pull", FetchedRows)]_vars

(* C31: get_pending_changes returns, for each of the five tables, exactly  *)
(* the rows whose sync_status is pending; mark_all_synced sets sync_status *)
(* to synced on every row of every table, keeps the rows and every other   *)
(* column, and right after it get_pending_changes is empty for every       *)
(* table, sales and config included.                                       *)
TableNames == {"config", "accounts", "items", "sales", "payouts"}

C31_PendingAndMarkAllSynced ==
    [][/\ GetPendingChanges =>
            \A t \in TableNames :
                /\ DOMAIN result'.changes[t] =
                       {k \in DOMAIN LocalTables[t] :
                            LocalTables[t][k].sync_status = "pending"}
                /\ \A k \in DOMAIN result'.changes[t] :
                       result'.changes[t][k] = LocalTables[t][k]
       /\ MarkAllSynced =>
            \A t \in TableNames :
                /\ DOMAIN LocalTables'[t] = DOMAIN LocalTables[t]
                /\ \A k \in DOMAIN LocalTables[t] :
                       LocalTables'[t][k] =
                           [LocalTables[t][k] EXCEPT !.sync_status = "synced"]
                /\ get_pending_changes(LocalTables')[t] = << >>]_vars

(* after sold rows and config rows were marked synced, the query for       *)
(* pending rows came back empty for every table                            *)
C31_Witness ==
    /\ result.status = "pending_changes"
    /\ \A t \in TableNames : result.changes[t] = << >>
    /\ db_sales # << >> /\ db_config # << >> /\ db_payouts # << >>
    /\ sync_log = << >>

(* C32: a sale record, once created, keeps every field through every later *)
(* operation; update_consignor_terms and process_expirations leave every   *)
(* balance as it was; and a sale made after a change of terms records the  *)
(* stocking fee the consignor holds at that sale.                          *)
C32_SaleRecordImmutable ==
    [][/\ \A i \in DOMAIN items :
            items[i].sale_record # None =>
                /\ i \in DOMAIN items'
                /\ items'[i].sale_record = items[i].sale_record
       /\ \A c \in DOMAIN consignors, s \in Optional(SplitSet), f \in Optional(FeeSet) :
            update_consignor_terms(c, s, f) =>
                \A o \in DOMAIN consignors : consignors'[o].balance = consignors[o].balance
       /\ \A d \in DateSet :
            process_expirations(d) =>
                \A o \in DOMAIN consignors : consignors'[o].balance = consignors[o].balance
       /\ \A i \in DOMAIN items, d \in DateSet :
            (items[i].status = ACTIVE /\ sell_item(i, d)) =>
                items'[i].sale_record[1].stocking_fee =
                    consignors[items[i].consignor_id].stocking_fee]_vars

(* two items of one consignor, of the same price and sold on the same day, *)
(* carry different shares: the terms were changed between the two sales,   *)
(* and the earlier record and the balance credited for it stayed           *)
C32_Witness ==
    \E i, j \in DOMAIN items :
        /\ i < j
        /\ items[i].status = SOLD /\ items[j].status = SOLD
        /\ items[i].consignor_id = items[j].consignor_id
        /\ items[i].original_price = items[j].original_price
        /\ items[i].sale_record[1].sale_date = items[j].sale_record[1].sale_date
        /\ items[i].sale_record[1].consignor_share > 0
        /\ items[j].sale_record[1].consignor_share = 0
        /\ consignors[items[i].consignor_id].balance =
               items[i].sale_record[1].consignor_share

(* C33: when a confirmed pull_full returns a failed result, whatever the   *)
(* step that failed (the fetch, clear_all_data, bulk_import), the five     *)
(* local tables hold the rows, the columns and the sync_status they held   *)
(* before the call.                                                        *)
C33_FailedPullKeepsLocal ==
    [][\A fault \in AllFaults :
          ( /\ configured
            /\ pull_full(TRUE, fault)
            /\ result'.status = "sync_result"
            /\ result'.sync_result.status = "failed" ) =>
              LocalTables' = LocalTables]_vars

(* C34: a push that reached the remote commit leaves the remote tables in  *)
(* a state that pushing the same rows once more does not change, and the   *)
(* remote keys are exactly the keys held before together with the keys of  *)
(* the pushed rows: one row per natural key.                               *)
(* the remote table of a local table *)
RemoteOf(t) == IF t = "config" THEN "store_config"
               ELSE IF t = "accounts" THEN "consignors" ELSE t

C34_PushIdempotentOnRemote ==
    [][\A fault \in {"none", "mark"} :
          (configured /\ push_changes(fault)) =>
              LET changes == get_pending_changes(LocalTables)
              IN  /\ upserted(cloud', changes, INSTANCE_ID) = cloud'
                  /\ \A t \in TableNames :
                         DOMAIN cloud'[RemoteOf(t)] =
                             DOMAIN cloud[RemoteOf(t)] \cup DOMAIN changes[t]]_vars

(* a push committed on the remote but failed to mark the local rows; the   *)
(* retry pushed the same rows again, and the remote holds one row for each *)
C34_Witness ==
    /\ Len(sync_log) = 2
    /\ sync_log[1].status = "failed" /\ sync_log[1].error_message = Some("mark")
    /\ sync_log[2].status = "success"
    /\ sync_log[2].records_synced = count_rows(LocalTables)
    /\ DOMAIN db_accounts # {} /\ DOMAIN db_sales # {}
    /\ \A t \in TableNames : DOMAIN cloud[RemoteOf(t)] = DOMAIN LocalTables[t]

(* C35: a store constructed with an explicit default split and an explicit *)
(* default stocking fee holds exactly those defaults, 0 included; an       *)
(* account added without terms gets the store's defaults; and load_store   *)
(* on a database that holds the store's defaults restores them.            *)
C35_ExplicitDefaultsHonoured ==
    [][/\ \A s \in TermSplitSet, f \in TermFeeSet :
            ConsignmentStore_new(Some(s), Some(f)) =>
                /\ default_split' = s
                /\ default_stocking_fee' = f
       /\ add_consignor(None, None) =>
                /\ consignors'[consignor_counter].split_percent = default_split
                /\ consignors'[consignor_counter].stocking_fee = default_stocking_fee
       /\ ( /\ load_store
            /\ "default_split" \in DOMAIN db_config
            /\ "default_stocking_fee" \in DOMAIN db_config
            /\ db_config["default_split"].value = default_split
            /\ db_config["default_stocking_fee"].value = default_stocking_fee ) =>
                /\ default_split' = default_split
                /\ default_stocking_fee' = default_stocking_fee]_vars

(* C36: for every consignor, in every state of the store, the balance plus *)
(* the amounts of the consignor's payouts is the sum of the consignor      *)
(* shares of the sale records of the consignor's items; and every payout   *)
(* has an amount > 0.                                                      *)
RECURSIVE SumOfShares(_)
SumOfShares(ids) ==
    IF ids = {} THEN 0
    ELSE LET i == CHOOSE x \in ids : TRUE
         IN  items[i].sale_record[1].consignor_share + SumOfShares(ids \ {i})

RECURSIVE SumOfAmounts(_)
SumOfAmounts(ks) ==
    IF ks = {} THEN 0
    ELSE LET k == CHOOSE x \in ks : TRUE
         IN  payouts[k].amount + SumOfAmounts(ks \ {k})

C36_MoneyConserved ==
    /\ \A c \in DOMAIN consignors :
          consignors[c].balance
            + SumOfAmounts({k \in DOMAIN payouts : payouts[k].consignor_id = c})
          = SumOfShares({i \in DOMAIN items :
                            items[i].consignor_id = c /\ items[i].sale_record # None})
    /\ \A k \in DOMAIN payouts : payouts[k].amount > 0

(* a consignor was paid for a first sale and holds the share of a second   *)
(* one as balance                                                          *)
C36_Witness ==
    \E c \in DOMAIN consignors :
        /\ consignors[c].balance > 0
        /\ \E k \in DOMAIN payouts : payouts[k].consignor_id = c
        /\ Cardinality({i \in DOMAIN items :
                           /\ items[i].consignor_id = c
                           /\ items[i].status = SOLD
                           /\ items[i].sale_record[1].consignor_share > 0}) = 2

(* C37: with this installation the only writer of the remote database,     *)
(* every local row whose sync_status is synced has a remote row of the     *)
(* same key that holds the same value in every data column.                *)
MirroredIn(local, remote, image(_, _)) ==
    \A k \in DOMAIN local :
        local[k].sync_status = "synced" =>
            /\ k \in DOMAIN remote
            /\ remote[k] = image(local[k], INSTANCE_ID)

C37_SyncedImpliesMirrored ==
    /\ MirroredIn(db_config, cloud.store_config, remote_config)
    /\ MirroredIn(db_accounts, cloud.consignors, remote_consignor)
    /\ MirroredIn(db_items, cloud.items, remote_item)
    /\ MirroredIn(db_sales, cloud.sales, remote_sale)
    /\ MirroredIn(db_payouts, cloud.payouts, remote_payout)

(* C38 as stated: whenever push_changes returns a failed result the remote *)
(* tables are as they were before the call.                                *)
C38_FailedPushKeepsRemote_AsStated ==
    [][\A fault \in PushFaults :
          ( /\ configured
            /\ push_changes(fault)
            /\ result'.sync_result.status = "failed" ) =>
              cloud' = cloud]_vars

(* C38: a push_changes that fails before the remote commit has completed   *)
(* (schema, connection, pending query, an upsert, the commit itself)       *)
(* leaves the remote tables as they were; one that fails after the commit, *)
(* at the local marking, returns failed with every pushed row on the       *)
(* remote and every local row as it was, still pending.                    *)
C38_FailedPushKeepsRemote ==
    [][/\ \A fault \in {"schema", "connect", "pending", "upsert", "commit"} :
            (configured /\ push_changes(fault)) =>
                /\ result'.sync_result.status = "failed"
                /\ cloud' = cloud
       /\ (configured /\ push_changes("mark")) =>
                /\ result'.sync_result.status = "failed"
                /\ LocalTables' = LocalTables
                /\ \A t \in TableNames :
                       \A k \in DOMAIN LocalTables[t] :
                           LocalTables[t][k].sync_status = "pending" =>
                               k \in DOMAIN cloud'[RemoteOf(t)]]_vars

(* a push succeeded, the account's balance changed and was saved, and the  *)
(* next push failed at an upsert: the remote row still holds the balance   *)
(* of the first push                                                       *)
C38_Witness ==
    /\ Len(sync_log) = 2
    /\ sync_log[1].status = "success"
    /\ sync_log[2].status = "failed" /\ sync_log[2].error_message = Some("upsert")
    /\ \E a \in DOMAIN db_accounts :
            /\ db_accounts[a].sync_status = "pending"
            /\ a \in DOMAIN cloud.consignors
            /\ cloud.consignors[a].balance # db_accounts[a].balance

(* C39: when the local writes have come to an end and pushes that the      *)
(* remote database accepts keep being made, then from some time on every   *)
(* local row is synced and has a row on the remote, whatever attempts      *)
(* failed before.                                                          *)
Drained ==
    /\ PendingCount = 0
    /\ \A t \in TableNames : DOMAIN LocalTables[t] \subseteq DOMAIN cloud[RemoteOf(t)]

C39_PendingEventuallyDrained == <>[]Drained

(* two attempts failed, at the connection and at the commit, and a later   *)
(* one pushed the rows of both accounts                                    *)
C39_Witness ==
    /\ Drained
    /\ Cardinality(DOMAIN db_accounts) = 2
    /\ \E j, k, m \in DOMAIN sync_log :
            /\ j < m /\ k < m
            /\ sync_log[j].status = "failed" /\ sync_log[j].error_message = Some("connect")
            /\ sync_log[k].status = "failed" /\ sync_log[k].error_message = Some("commit")
            /\ sync_log[m].status = "success" /\ sync_log[m].records_synced = 2

(* C40: sell_item looks at the status only, never at the age: an Active    *)
(* item aged >= 120 days at the sale date, which process_expirations at    *)
(* that date would expire, is sold at the 75% tier and its share is        *)
(* credited to the owner's balance; process_expirations at that date makes *)
(* the same item Expired and credits nothing; and an item that is Sold or  *)
(* Expired keeps that status, so the call that comes first decides.        *)
C40_SellIgnoresAge ==
    [][/\ \A d \in ExpiryDateSet : \A i \in DueAt(items, d) :
             sell_item(i, d) =>
                 LET owner == items[i].consignor_id
                     price == QuantizeHalfUp(items[i].original_price * 25, 100)
                     net == (price - consignors[owner].stocking_fee)
                                * consignors[owner].split_percent
                     rounded == QuantizeHalfUp(net, 100)
                     share == IF rounded < 0 THEN 0 ELSE rounded
                 IN  /\ result' = Ok("sell_item", i)
                     /\ items'[i].status = SOLD
                     /\ items'[i].status_date = d
                     /\ items'[i].sale_record # None
                     /\ items'[i].sale_record[1].discount_percent = 75
                     /\ items'[i].sale_record[1].sale_price = price
                     /\ items'[i].sale_record[1].consignor_share = share
                     /\ consignors'[owner].balance = consignors[owner].balance + share
       /\ \A d \in ExpiryDateSet : \A i \in DueAt(items, d) :
             process_expirations(d) =>
                 /\ items'[i].status = EXPIRED
                 /\ items'[i].sale_record = None
                 /\ consignors' = consignors
       /\ \A i \in DOMAIN items :
             items[i].status \in {SOLD, EXPIRED} => items'[i].status = items[i].status]_vars

(* Two items of one owner, entered on the same day at the same price and    *)
(* both 120 days old: the one sold first is Sold at 75% off with a share    *)
(* paid into the balance, the one the sweep reached first is Expired        *)
C40_Witness ==
    \E i, j \in DOMAIN items :
        /\ items[i].entry_date = items[j].entry_date
        /\ items[i].original_price = items[j].original_price
        /\ items[i].consignor_id = items[j].consignor_id
        /\ items[i].status = SOLD
        /\ items[i].status_date - items[i].entry_date >= EXPIRY_DAYS
        /\ items[i].sale_record[1].discount_percent = 75
        /\ items[i].sale_record[1].consignor_share > 0
        /\ consignors[items[i].consignor_id].balance
                >= items[i].sale_record[1].consignor_share
        /\ items[j].status = EXPIRED
        /\ items[j].status_date = items[i].status_date

====
